---- MODULE Spec2Model ----
(***************************************************************************)
(* Model of the stringify direction of sitepins/mdx-parser:                *)
(*   - the Mark Engine (processInlineNodes and its helpers),               *)
(*   - the Tree Converter (createMdastRoot, convertBlockElement, ...),     *)
(*   - the entry functions (stringifyMDX, convertToSitepinsMarkdown).      *)
(* Strings whose characters matter (text values, serialized markdown) are  *)
(* sequences of one-character strings; type tags and names are atoms.      *)
(***************************************************************************)
EXTENDS Integers, Sequences, FiniteSets, TLC

VARIABLES pc, op, input, field, result

vars == <<pc, op, input, field, result>>

(***************************************************************************)
(* Bounds of the model.                                                    *)
(***************************************************************************)
\* longest sibling list of text leaves given to processInlineNodes
MaxLen == 3

(***************************************************************************)
(* Outcomes of a call: a returned value or a raised error.                 *)
(***************************************************************************)
Ok(v) == [ok |-> TRUE, val |-> v, err |-> "", arg |-> ""]

Throw(e, a) == [ok |-> FALSE, val |-> <<>>, err |-> e, arg |-> a]

NoResult == [ok |-> TRUE, val |-> "pending", err |-> "", arg |-> ""]

ErrInlineCode == "Marks inside inline code are not supported"

ErrLink == "Unexpected node of type a"

ErrInlineElement == "InlineElement: is not supported"

\* [head, ...rest] of a JS array literal: head is evaluated first, and an
\* error raised by either evaluation ends the whole expression.
ConsR(head, rest) ==
  IF ~head.ok THEN head
  ELSE IF ~rest.ok THEN rest
  ELSE Ok(<<head.val>> \o rest.val)

\* Array.prototype.map over calls that may raise: the first error wins
SeqR(rs) ==
  LET bad == {k \in 1..Len(rs) : ~rs[k].ok}
  IN IF bad # {} THEN rs[CHOOSE k \in bad : \A j \in bad : k <= j]
     ELSE Ok([k \in 1..Len(rs) |-> rs[k].val])

\* the value returned by a call is used by what follows it; an error raised
\* by the call ends the caller as well
Bind(r, F(_)) == IF ~r.ok THEN r ELSE F(r.val)

(***************************************************************************)
(* Rich document (Plate) inline nodes.                                     *)
(***************************************************************************)
Undefined == "undefined"

\* an absent character string (a present one holds one-character strings)
NoStr == <<Undefined>>

\* an absent column alignment
NoAlign == [defined |-> FALSE, cols |-> <<>>]

\* absent props; props.children and a cell's value hold at most one nested
\* document root
NoProps == [defined |-> FALSE, align |-> NoAlign, tableRows |-> <<>>,
            children |-> <<>>, attributes |-> <<>>]

MarkOrder == <<"strong", "emphasis", "inlineCode", "delete">>

\* every field a rich document node may carry; a field a node kind does not
\* have is Undefined
PInline(type) ==
  [type |-> type, text |-> NoStr, bold |-> FALSE, italic |-> FALSE,
   code |-> FALSE, strikethrough |-> FALSE, url |-> Undefined,
   value |-> NoStr, name |-> Undefined, children |-> <<>>,
   linkifyTextNode |-> Undefined, lang |-> Undefined, props |-> NoProps]

\* a text leaf with the given text and flags
PText(text, b, i, c, s) ==
  [PInline("text") EXCEPT !.text = text, !.bold = b, !.italic = i,
                          !.code = c, !.strikethrough = s]

PLink(url, children) ==
  [PInline("a") EXCEPT !.url = url, !.children = children]

PImage(url) == [PInline("img") EXCEPT !.url = url]

PBreak == PInline("break")

PHtmlInline(v) == [PInline("html_inline") EXCEPT !.value = v]

(***************************************************************************)
(* Generic Markdown (mdast) nodes.                                         *)
(***************************************************************************)
Md(type) ==
  [type |-> type, value |-> NoStr, url |-> Undefined, name |-> Undefined,
   children |-> <<>>, attributes |-> <<>>, depth |-> 0, ordered |-> FALSE,
   align |-> NoAlign, lang |-> Undefined]

createMdTextNode(content) == [Md("text") EXCEPT !.value = content.text]

MdParent(type, children) == [Md(type) EXCEPT !.children = children]

MdLinkNode(url, children) ==
  [Md("link") EXCEPT !.url = url, !.children = children]

\* the closure stored by convertLinksToTextNodes, applied to a generic node
linkifyTextNode(node, textNode) ==
  MdLinkNode(IF node.linkifyTextNode = Undefined THEN "" ELSE node.linkifyTextNode,
             <<textNode>>)

(***************************************************************************)
(* Mark Engine helpers.                                                    *)
(***************************************************************************)
\* a bug that makes every sibling match the marks of the first leaf
arrayMatchesAlways(a, b) == TRUE

arrayMatches(a, b) ==
  \E x \in 1..Len(a) : \E y \in 1..Len(b) : a[x] = b[y]

Includes(seq, x) == \E k \in 1..Len(seq) : seq[k] = x

getNodeMarks(node) ==
  IF node.type # "text" THEN <<>>
  ELSE (IF node.bold THEN <<"strong">> ELSE <<>>)
       \o (IF node.italic THEN <<"emphasis">> ELSE <<>>)
       \o (IF node.code THEN <<"inlineCode">> ELSE <<>>)
       \o (IF node.strikethrough THEN <<"delete">> ELSE <<>>)

removeMarkFromNode(node, mark) ==
  IF mark = Undefined THEN node
  ELSE CASE mark = "strong" -> [node EXCEPT !.bold = FALSE]
         [] mark = "emphasis" -> [node EXCEPT !.italic = FALSE]
         [] mark = "inlineCode" -> [node EXCEPT !.code = FALSE]
         [] mark = "delete" -> [node EXCEPT !.strikethrough = FALSE]

EmptyTextChild == [PInline("text") EXCEPT !.text = <<>>]

convertLinkToTextNode(item) ==
  IF item.type = "a" /\ Len(item.children) = 1
     /\ item.children[1].type = "text"
  THEN [PInline("text") EXCEPT !.text = item.children[1].text,
                               !.children = <<EmptyTextChild>>,
                               !.linkifyTextNode =
                                  IF item.url = Undefined THEN "" ELSE item.url]
  ELSE item

convertLinksToTextNodes(nodes) ==
  [k \in 1..Len(nodes) |-> convertLinkToTextNode(nodes[k])]

\* index, within content.slice(1), of the first sibling whose marks do not
\* intersect `marks`; content.length - 1 when every sibling matches
NonMatchingSiblingIndex(content, marks) ==
  LET sl == Tail(content)
      bad == {k \in 1..Len(sl) : ~arrayMatches(marks, getNodeMarks(sl[k]))}
  IN IF bad = {} THEN Len(content) - 1
     ELSE (CHOOSE k \in bad : \A j \in bad : k <= j) - 1

\* the `every` loop of the mark count: count starts at 1 and is set to
\* index + 1 for each consecutive sibling that carries the mark
MarkCount(matchingSiblings, mark) ==
  LET carried == {k \in 1..Len(matchingSiblings) :
                    \A j \in 1..k : Includes(getNodeMarks(matchingSiblings[j]), mark)}
  IN IF carried = {} THEN 1
     ELSE (CHOOSE k \in carried : \A j \in carried : j <= k) - 1 + 1

RECURSIVE HighestFrom(_, _, _, _, _)
\* the Object.entries loop: a later mark replaces the choice only when its
\* count is strictly greater
HighestFrom(marks, siblings, k, count, chosen) ==
  IF k > Len(marks) THEN chosen
  ELSE LET mc == MarkCount(siblings, marks[k])
       IN IF mc > count
          THEN HighestFrom(marks, siblings, k + 1, mc, marks[k])
          ELSE HighestFrom(marks, siblings, k + 1, count, chosen)

MarkToProcess(marks, matchingSiblings) ==
  HighestFrom(marks, matchingSiblings, 1, 0, Undefined)

\* the 1:1 mapper; the custom inline component is serialized by
\* stringifyPropsInline, which keeps name and type
handleInlineNode(content) ==
  CASE content.type = "a" -> Throw(ErrLink, "a")
    [] content.type = "img" -> Ok([Md("image") EXCEPT !.url = content.url])
    [] content.type = "break" -> Ok(Md("break"))
    [] content.type = "mdxJsxTextElement" ->
         Ok([Md("mdxJsxTextElement") EXCEPT !.name = content.name])
    [] content.type = "html_inline" ->
         Ok([Md("html") EXCEPT !.value = content.value])
    [] OTHER ->
         IF (content.type = Undefined \/ content.type = "text")
            /\ content.text # NoStr
         THEN Ok(createMdTextNode(content))
         ELSE Throw(ErrInlineElement, content.type)

SliceFrom(seq, n) == SubSeq(seq, n + 1, Len(seq))

\* a bug that hands the children of a link over twice
LinkChildrenTwice(node) == node.children \o node.children

\* the sibling list given to the recursive call for a link node
LinkChildren(node) == node.children

\* a bug that lets a selected inlineCode swallow its matching siblings
InlineCodeConflictDropped(nonMatchingSiblingIndex) == FALSE

\* `if (nonMatchingSiblingIndex) throw` of the inlineCode branch
InlineCodeConflict(nonMatchingSiblingIndex) == nonMatchingSiblingIndex # 0

RECURSIVE processInlineNodes(_)
\* processInlineNodes from the choice of the mark on: the inlineCode branch
\* and the wrapper around the first leaf and its matching siblings
ProcessMarked(content, nonMatchingSiblingIndex, markToProcess) ==
  LET first == Head(content) IN
  IF markToProcess = Undefined THEN
    ConsR(Ok(createMdTextNode(first)),
          processInlineNodes(SliceFrom(content, 1)))
  ELSE IF markToProcess = "inlineCode" THEN
    IF InlineCodeConflict(nonMatchingSiblingIndex) THEN Throw(ErrInlineCode, "")
    ELSE
    LET node == [Md("inlineCode") EXCEPT !.value = first.text] IN
    ConsR(Ok(IF first.linkifyTextNode # Undefined
             THEN linkifyTextNode(first, node) ELSE node),
          processInlineNodes(SliceFrom(content, nonMatchingSiblingIndex + 1)))
  ELSE
    Bind(processInlineNodes(
           [k \in 1..(nonMatchingSiblingIndex + 1) |->
              removeMarkFromNode(content[k], markToProcess)]),
         LAMBDA children :
           ConsR(Ok(MdParent(markToProcess, children)),
                 processInlineNodes(
                   SliceFrom(content, nonMatchingSiblingIndex + 1))))

\* processInlineNodes for a first node that is a text leaf with marks: the
\* matching siblings are content.slice(1, nonMatchingSiblingIndex + 1)
ProcessText(content, marks, nonMatchingSiblingIndex) ==
  ProcessMarked(content, nonMatchingSiblingIndex,
                MarkToProcess(marks,
                              SubSeq(content, 2, nonMatchingSiblingIndex + 1)))

\* processInlineNodes after the links with a single text child were rewritten
ProcessContent(content) ==
  IF content = <<>> THEN Ok(<<>>)
  ELSE
  LET first == Head(content) IN
  IF first.type # "text" THEN
    IF first.type = "a" THEN
      Bind(processInlineNodes(LinkChildren(first)),
           LAMBDA children :
             ConsR(Ok(MdLinkNode(first.url, children)),
                   processInlineNodes(SliceFrom(content, 1))))
    ELSE ConsR(handleInlineNode(first),
               processInlineNodes(SliceFrom(content, 1)))
  ELSE IF getNodeMarks(first) = <<>> THEN
    IF first.linkifyTextNode # Undefined
    THEN ConsR(Ok(linkifyTextNode(first, createMdTextNode(first))),
               processInlineNodes(SliceFrom(content, 1)))
    ELSE ConsR(Ok(createMdTextNode(first)),
               processInlineNodes(SliceFrom(content, 1)))
  ELSE ProcessText(content, getNodeMarks(first),
                   NonMatchingSiblingIndex(content, getNodeMarks(first)))

processInlineNodes(c) == ProcessContent(convertLinksToTextNodes(c))

(***************************************************************************)
(* The Mark Engine of src/unnamed/part_001: the same functions, rewritten   *)
(* with type guards and helper functions.  A key that is absent from a node *)
(* holds Undefined (NoStr for a text).                                      *)
(***************************************************************************)
isLinkNode(node) == node.type = "a" /\ node.url # Undefined

isImageNode(node) == node.type = "img" /\ node.url # Undefined

isMdxJsxTextNode(node) ==
  node.type = "mdxJsxTextElement" /\ node.name # Undefined /\ node.props.defined

isHtmlInlineNode(node) == node.type = "html_inline" /\ node.value # NoStr

isTextNode(node) == node.type \in {Undefined, "text"} /\ node.text # NoStr

handleInlineNodePart001(node) ==
  IF isLinkNode(node) THEN Throw(ErrLink, "a")
  ELSE IF isImageNode(node) THEN Ok([Md("image") EXCEPT !.url = node.url])
  ELSE IF node.type = "break" THEN Ok(Md("break"))
  ELSE IF isMdxJsxTextNode(node)
  THEN Ok([Md("mdxJsxTextElement") EXCEPT !.name = node.name])
  ELSE IF isHtmlInlineNode(node)
  THEN Ok([Md("html") EXCEPT !.value = node.value])
  ELSE IF isTextNode(node) THEN Ok(createMdTextNode(node))
  ELSE Throw(ErrInlineElement, node.type)

getNodeMarksPart001(node) ==
  IF ~isTextNode(node) THEN <<>>
  ELSE (IF node.bold THEN <<"strong">> ELSE <<>>)
       \o (IF node.italic THEN <<"emphasis">> ELSE <<>>)
       \o (IF node.code THEN <<"inlineCode">> ELSE <<>>)
       \o (IF node.strikethrough THEN <<"delete">> ELSE <<>>)

\* findIndex: the 0-based index of the first node that lacks one of the
\* marks, -1 when there is none
findFirstNonMatchingSiblingIndex(nodes, marks) ==
  LET bad == {k \in 1..Len(nodes) :
                \E m \in 1..Len(marks) :
                  ~Includes(getNodeMarksPart001(nodes[k]), marks[m])}
  IN IF bad = {} THEN -1
     ELSE (CHOOSE k \in bad : \A j \in bad : k <= j) - 1

\* the count of each mark of `marks`, in the order of `marks`
getMarkCounts(siblings, marks) ==
  [m \in 1..Len(marks) |->
     Cardinality({k \in 1..Len(siblings) :
                    Includes(getNodeMarksPart001(siblings[k]), marks[m])})]

RECURSIVE MostCommonFrom(_, _, _, _, _)
MostCommonFrom(marks, counts, k, highestCount, highestMark) ==
  IF k > Len(marks) THEN highestMark
  ELSE IF counts[k] # 0 /\ counts[k] > highestCount
  THEN MostCommonFrom(marks, counts, k + 1, counts[k], marks[k])
  ELSE MostCommonFrom(marks, counts, k + 1, highestCount, highestMark)

\* the entries of counts are visited in the order the marks were inserted
getMostCommonMark(marks, counts) ==
  MostCommonFrom(marks, counts, 1, 0, Undefined)

removeMarkFromNodePart001(node, mark) ==
  IF mark = Undefined \/ ~isTextNode(node) THEN node
  ELSE CASE mark = "strong" -> [node EXCEPT !.bold = FALSE]
         [] mark = "emphasis" -> [node EXCEPT !.italic = FALSE]
         [] mark = "inlineCode" -> [node EXCEPT !.code = FALSE]
         [] mark = "delete" -> [node EXCEPT !.strikethrough = FALSE]

convertLinkToTextNodePart001(item) ==
  IF isLinkNode(item) /\ Len(item.children) = 1
     /\ item.children[1].type = "text"
  THEN [PInline("text") EXCEPT !.text = item.children[1].text,
                               !.children = <<EmptyTextChild>>,
                               !.linkifyTextNode = item.url]
  ELSE item

convertLinksToTextNodesPart001(nodes) ==
  [k \in 1..Len(nodes) |-> convertLinkToTextNodePart001(nodes[k])]

\* content.slice(0, nonMatchingIndex), the whole content for -1
SiblingsPart001(content, nonMatchingIndex) ==
  IF nonMatchingIndex = -1 THEN content
  ELSE SubSeq(content, 1, nonMatchingIndex)

\* content.slice(nonMatchingIndex), empty for -1
RestPart001(content, nonMatchingIndex) ==
  IF nonMatchingIndex = -1 THEN <<>> ELSE SliceFrom(content, nonMatchingIndex)

RECURSIVE processInlineNodesPart001(_)
\* from the choice of the mark on: the inlineCode branch, and the wrapper
\* whose children are the siblings mapped by handleInlineNode
ProcessMarkedPart001(content, siblings, rest, highestMark) ==
  LET firstNode == Head(content) IN
  IF highestMark = Undefined THEN
    ConsR(Ok(createMdTextNode(firstNode)),
          processInlineNodesPart001(SliceFrom(content, 1)))
  ELSE IF highestMark = "inlineCode" THEN
    IF Len(siblings) > 1 THEN Throw(ErrInlineCode, "")
    ELSE
    ConsR(Ok(IF firstNode.linkifyTextNode # Undefined
             THEN linkifyTextNode(firstNode, createMdTextNode(firstNode))
             ELSE [Md("inlineCode") EXCEPT !.value = firstNode.text]),
          processInlineNodesPart001(rest))
  ELSE
    Bind(SeqR([k \in 1..Len(siblings) |->
                 handleInlineNodePart001(
                   removeMarkFromNodePart001(siblings[k], highestMark))]),
         LAMBDA children :
           ConsR(Ok(MdParent(highestMark, children)),
                 processInlineNodesPart001(rest)))

ProcessTextPart001(content, marks, nonMatchingIndex) ==
  ProcessMarkedPart001(
    content, SiblingsPart001(content, nonMatchingIndex),
    RestPart001(content, nonMatchingIndex),
    getMostCommonMark(
      marks,
      getMarkCounts(SiblingsPart001(content, nonMatchingIndex), marks)))

ProcessContentPart001(content) ==
  LET firstNode == Head(content) IN
  IF firstNode.type # "text" THEN
    IF firstNode.type = "a" THEN
      Bind(processInlineNodesPart001(LinkChildren(firstNode)),
           LAMBDA children :
             ConsR(Ok(MdLinkNode(firstNode.url, children)),
                   processInlineNodesPart001(SliceFrom(content, 1))))
    ELSE ConsR(handleInlineNodePart001(firstNode),
               processInlineNodesPart001(SliceFrom(content, 1)))
  ELSE IF getNodeMarksPart001(firstNode) = <<>> THEN
    ConsR(Ok(IF firstNode.linkifyTextNode # Undefined
             THEN linkifyTextNode(firstNode, createMdTextNode(firstNode))
             ELSE createMdTextNode(firstNode)),
          processInlineNodesPart001(SliceFrom(content, 1)))
  ELSE ProcessTextPart001(
         content, getNodeMarksPart001(firstNode),
         findFirstNonMatchingSiblingIndex(content,
                                          getNodeMarksPart001(firstNode)))

processInlineNodesPart001(nodes) ==
  IF nodes = <<>> THEN Ok(<<>>)
  ELSE ProcessContentPart001(convertLinksToTextNodesPart001(nodes))

(***************************************************************************)
(* Frame of the conversion: the input nodes as a call leaves them.  The     *)
(* nodes of the input are shared with the caller, so an assignment to one   *)
(* of them would be seen after the call.                                    *)
(***************************************************************************)
\* a bug that clears the flag on the node itself
removeMarkFromNodeInPlace(node, mark) == removeMarkFromNode(node, mark)

\* the node given to removeMarkFromNode after the call: its entries are
\* copied into cleanedNode, the node itself is only read
NodeAfterRemoveMark(node, mark) == node

\* the item given to the map callback of convertLinksToTextNodes after the
\* call: a rewritten link is a new object, the item is only read
ItemAfterConvertLink(item) == item

RECURSIVE ContentAfter(_)
\* the siblings 1..nonMatchingSiblingIndex + 1 after the wrapper was built
\* (each was given to removeMarkFromNode, unless it is a rewritten link, whose
\* replacement was), followed by the rest after its own call, which is made
\* only when the call for the wrapper's children returned
ContentAfterWrapper(c, content, nonMatchingSiblingIndex, markToProcess) ==
  [k \in 1..(nonMatchingSiblingIndex + 1) |->
     IF content[k] = c[k] THEN NodeAfterRemoveMark(c[k], markToProcess)
     ELSE c[k]]
  \o (IF processInlineNodes(
           [k \in 1..(nonMatchingSiblingIndex + 1) |->
              removeMarkFromNode(content[k], markToProcess)]).ok
      THEN ContentAfter(SliceFrom(c, nonMatchingSiblingIndex + 1))
      ELSE SliceFrom(c, nonMatchingSiblingIndex + 1))

ContentAfterMarked(c, content, nonMatchingSiblingIndex, markToProcess) ==
  IF markToProcess = Undefined
  THEN <<Head(c)>> \o ContentAfter(Tail(c))
  ELSE IF markToProcess = "inlineCode"
  THEN IF InlineCodeConflict(nonMatchingSiblingIndex) THEN c
       ELSE <<Head(c)>> \o ContentAfter(SliceFrom(c, nonMatchingSiblingIndex + 1))
  ELSE ContentAfterWrapper(c, content, nonMatchingSiblingIndex, markToProcess)

ContentAfterText(c, content, marks, nonMatchingSiblingIndex) ==
  ContentAfterMarked(c, content, nonMatchingSiblingIndex,
                     MarkToProcess(marks,
                       SubSeq(content, 2, nonMatchingSiblingIndex + 1)))

\* c after processInlineNodes(c), content being convertLinksToTextNodes(c)
ContentAfterConverted(c, content) ==
  IF c = <<>> THEN c
  ELSE IF Head(content).type # "text" THEN
    IF Head(content).type = "a" THEN
      <<[Head(c) EXCEPT !.children = ContentAfter(@)]>>
      \o (IF processInlineNodes(Head(c).children).ok
          THEN ContentAfter(Tail(c)) ELSE Tail(c))
    ELSE IF handleInlineNode(Head(content)).ok
    THEN <<Head(c)>> \o ContentAfter(Tail(c))
    ELSE c
  ELSE IF getNodeMarks(Head(content)) = <<>>
  THEN <<Head(c)>> \o ContentAfter(Tail(c))
  ELSE ContentAfterText(c, content, getNodeMarks(Head(content)),
         NonMatchingSiblingIndex(content, getNodeMarks(Head(content))))

\* the sibling list given to processInlineNodes as the call leaves it
ContentAfter(c) ==
  ContentAfterConverted([k \in 1..Len(c) |-> ItemAfterConvertLink(c[k])],
                        convertLinksToTextNodes(c))

(***************************************************************************)
(* Inputs of the Mark Engine: sibling lists of text leaves, leaf k carrying *)
(* the k-th letter as its text.                                            *)
(***************************************************************************)
LeafText(k) == <<<<"a", "b", "c", "d", "e">>[k]>>

FlagSets == [bold : BOOLEAN, italic : BOOLEAN, code : BOOLEAN,
             strikethrough : BOOLEAN]

FlagLists == UNION {[1..n -> FlagSets] : n \in 0..MaxLen}

LeavesOf(fl) ==
  [k \in 1..Len(fl) |->
     PText(LeafText(k), fl[k].bold, fl[k].italic, fl[k].code,
           fl[k].strikethrough)]

\* largest length of a sibling list that mixes text leaves with other kinds
MaxRun == 3

RunKinds ==
  {"bold", "plain", "boldLink", "plainLink", "longLink", "imageLink",
   "image", "break", "html", "component"}

\* the k-th sibling of a mixed list, of the given kind
RunItem(kind, k) ==
  CASE kind = "bold" -> PText(LeafText(k), TRUE, FALSE, FALSE, FALSE)
    [] kind = "plain" -> PText(LeafText(k), FALSE, FALSE, FALSE, FALSE)
    [] kind = "boldLink" ->
         PLink("u", <<PText(LeafText(k), TRUE, FALSE, FALSE, FALSE)>>)
    [] kind = "plainLink" ->
         PLink("u", <<PText(LeafText(k), FALSE, FALSE, FALSE, FALSE)>>)
    [] kind = "longLink" ->
         PLink("u", <<PText(LeafText(k), TRUE, FALSE, FALSE, FALSE),
                      PText(LeafText(k), TRUE, FALSE, FALSE, FALSE)>>)
    [] kind = "imageLink" -> PLink("u", <<PImage("v")>>)
    [] kind = "image" -> PImage("u")
    [] kind = "break" -> PBreak
    [] kind = "html" -> PHtmlInline(<<"<", "a">>)
    [] kind = "component" ->
         [PInline("mdxJsxTextElement") EXCEPT
            !.name = "card", !.props = [NoProps EXCEPT !.defined = TRUE]]

MixedRuns ==
  {[k \in 1..Len(kinds) |-> RunItem(kinds[k], k)] :
     kinds \in UNION {[1..n -> RunKinds] : n \in 1..MaxRun}}

(***************************************************************************)
(* Specification of the Mark Engine: a sibling list is drawn, then          *)
(* processInlineNodes is applied to it.                                     *)
(***************************************************************************)
NoField == [parser |-> Undefined, skipEscaping |-> Undefined, templates |-> <<>>]

InitInline ==
  /\ pc = "ready"
  /\ op = "processInlineNodes"
  /\ input \in {LeavesOf(fl) : fl \in FlagLists} \cup MixedRuns
  /\ field = NoField
  /\ result = NoResult

CallProcessInlineNodes ==
  /\ pc = "ready"
  /\ op = "processInlineNodes"
  /\ result' = processInlineNodes(input)
  /\ input' = ContentAfter(input)
  /\ pc' = "done"
  /\ UNCHANGED <<op, field>>

NextInline == CallProcessInlineNodes

SpecInline == InitInline /\ [][NextInline]_vars

(***************************************************************************)
(* The recursion of processInlineNodes, call by call: input is the sibling  *)
(* list of the current call, a step goes to one of the recursive calls the  *)
(* current call makes, and a call that makes none returns.  The calls of a  *)
(* call are those it makes when none of them raises: an error raised by one *)
(* of them only keeps the calls after it from being made.                   *)
(***************************************************************************)
\* the list given to the recursive call for the wrapper's children
WrapperArguments(content, nonMatchingSiblingIndex, markToProcess) ==
  [k \in 1..(nonMatchingSiblingIndex + 1) |->
     removeMarkFromNode(content[k], markToProcess)]

CallsMarked(content, nonMatchingSiblingIndex, markToProcess) ==
  IF markToProcess = Undefined THEN {SliceFrom(content, 1)}
  ELSE IF markToProcess = "inlineCode" THEN
    IF InlineCodeConflict(nonMatchingSiblingIndex) THEN {}
    ELSE {SliceFrom(content, nonMatchingSiblingIndex + 1)}
  ELSE {WrapperArguments(content, nonMatchingSiblingIndex, markToProcess),
        SliceFrom(content, nonMatchingSiblingIndex + 1)}

CallsText(content, marks, nonMatchingSiblingIndex) ==
  UNION {CallsMarked(content, nonMatchingSiblingIndex, markToProcess) :
           markToProcess \in
             {MarkToProcess(marks,
                            SubSeq(content, 2, nonMatchingSiblingIndex + 1))}}

\* the recursive calls of processInlineNodes of markdownMarksHandler.ts
CallsContent(content) ==
  IF content = <<>> THEN {}
  ELSE IF Head(content).type # "text" THEN
    IF Head(content).type = "a"
    THEN {LinkChildren(Head(content)), SliceFrom(content, 1)}
    ELSE IF handleInlineNode(Head(content)).ok
    THEN {SliceFrom(content, 1)} ELSE {}
  ELSE IF getNodeMarks(Head(content)) = <<>> THEN {SliceFrom(content, 1)}
  ELSE UNION {CallsText(content, marks, nonMatchingSiblingIndex) :
                <<marks, nonMatchingSiblingIndex>> \in
                  {<<getNodeMarks(Head(content)),
                     NonMatchingSiblingIndex(content,
                                             getNodeMarks(Head(content)))>>}}

CallsMarkedPart001(content, siblings, rest, highestMark) ==
  IF highestMark = Undefined THEN {SliceFrom(content, 1)}
  ELSE IF highestMark = "inlineCode" THEN
    IF Len(siblings) > 1 THEN {} ELSE {rest}
  ELSE IF SeqR([k \in 1..Len(siblings) |->
                  handleInlineNodePart001(
                    removeMarkFromNodePart001(siblings[k], highestMark))]).ok
  THEN {rest} ELSE {}

CallsSiblingsPart001(content, marks, siblings, rest) ==
  UNION {CallsMarkedPart001(content, siblings, rest, highestMark) :
           highestMark \in {getMostCommonMark(marks,
                                              getMarkCounts(siblings, marks))}}

CallsTextPart001(content, marks, nonMatchingIndex) ==
  UNION {CallsSiblingsPart001(content, marks, siblings,
                              RestPart001(content, nonMatchingIndex)) :
           siblings \in {SiblingsPart001(content, nonMatchingIndex)}}

\* the recursive calls of processInlineNodes of part_001
CallsContentPart001(content) ==
  IF content = <<>> THEN {}
  ELSE IF Head(content).type # "text" THEN
    IF Head(content).type = "a"
    THEN {LinkChildren(Head(content)), SliceFrom(content, 1)}
    ELSE IF handleInlineNodePart001(Head(content)).ok
    THEN {SliceFrom(content, 1)} ELSE {}
  ELSE IF getNodeMarksPart001(Head(content)) = <<>>
  THEN {SliceFrom(content, 1)}
  ELSE UNION {CallsTextPart001(
                content, marks,
                findFirstNonMatchingSiblingIndex(content, marks)) :
                marks \in {getNodeMarksPart001(Head(content))}}

\* the sibling lists of the recursive calls made by the call of `impl` on c
RecursiveCalls(impl, c) ==
  IF impl = "processInlineNodes"
  THEN UNION {CallsContent(content) : content \in {convertLinksToTextNodes(c)}}
  ELSE UNION {CallsContentPart001(content) :
                content \in {convertLinksToTextNodesPart001(c)}}

Implementations == {"processInlineNodes", "part_001.processInlineNodes"}

InitCalls ==
  /\ pc = "idle"
  /\ op \in Implementations
  /\ input = <<>>
  /\ field = NoField
  /\ result = NoResult

\* the call made by the caller
Enter ==
  /\ pc = "idle"
  /\ pc' = "call"
  /\ input' \in {LeavesOf(fl) : fl \in FlagLists} \cup MixedRuns
  /\ UNCHANGED <<op, field, result>>

Recurse ==
  /\ pc = "call"
  /\ input' \in RecursiveCalls(op, input)
  /\ UNCHANGED <<pc, op, field, result>>

Return ==
  /\ pc = "call"
  /\ RecursiveCalls(op, input) = {}
  /\ pc' = "done"
  /\ UNCHANGED <<op, input, field, result>>

NextCalls == Enter \/ Recurse \/ Return

\* a call that was made is carried on; the caller need not call
SpecCalls == InitCalls /\ [][NextCalls]_vars /\ WF_vars(Recurse \/ Return)

(***************************************************************************)
(* The two implementations of processInlineNodes, one call of either.       *)
(***************************************************************************)
InitBoth ==
  /\ pc = "ready"
  /\ op \in Implementations
  /\ input \in {LeavesOf(fl) : fl \in FlagLists} \cup MixedRuns
  /\ field = NoField
  /\ result = NoResult

CallProcessInlineNodesPart001 ==
  /\ pc = "ready"
  /\ op = "part_001.processInlineNodes"
  /\ result' = processInlineNodesPart001(input)
  /\ pc' = "done"
  /\ UNCHANGED <<op, input, field>>

NextBoth == CallProcessInlineNodes \/ CallProcessInlineNodesPart001

SpecBoth == InitBoth /\ [][NextBoth]_vars

(***************************************************************************)
(* Tree Converter: rich document blocks to generic Markdown nodes.          *)
(***************************************************************************)
\* the null returned for an empty paragraph
Null == Md("null")

NoTemplate == [kind |-> "none", name |-> Undefined,
               match |-> [defined |-> FALSE, type |-> Undefined,
                          templateName |-> Undefined]]

ErrBlockElement == "BlockElement: is not yet supported"

ErrBlockContentElement == "BlockContentElement: is not yet supported"

ErrShortcodeName == "Expected shortcode to have a name but it was not defined"

ErrTemplate == "Unable to find template for JSX element"

ErrGlobalTemplate == "Global templates are not supported"

ErrString == "Expected an object to stringify, but received a string"

PBlock(type, children) == [PInline(type) EXCEPT !.children = children]

HeadingDepth(type) ==
  CASE type = "h1" -> 1 [] type = "h2" -> 2 [] type = "h3" -> 3
    [] type = "h4" -> 4 [] type = "h5" -> 5 [] type = "h6" -> 6

\* node?.children?.at(0)?.children || [], node given as <<>> when absent
FirstChildChildren(node) ==
  IF node = <<>> THEN <<>>
  ELSE IF node[1].children = <<>> THEN <<>>
  ELSE node[1].children[1].children

\* the paragraph whose only child is a text leaf (typed or untyped) with
\* empty text
IsEmptyParagraph(plateBlock) ==
  /\ plateBlock.type = "p"
  /\ Len(plateBlock.children) = 1
  /\ plateBlock.children[1].type \in {"text", Undefined}
  /\ plateBlock.children[1].text = <<>>

TemplateFor(name, richTextType) ==
  LET ts == richTextType.templates
      hit == {k \in 1..Len(ts) : ts[k].kind = "object" /\ ts[k].name = name}
  IN IF hit = {} THEN NoTemplate
     ELSE ts[CHOOSE k \in hit : \A j \in hit : k <= j]

\* a table cell: the inline children of the cell's first child
TableCell(inlineChildren) ==
  Bind(processInlineNodes(inlineChildren),
       LAMBDA children : Ok(MdParent("tableCell", children)))

TableRow(cells) ==
  Bind(SeqR(cells), LAMBDA children : Ok(MdParent("tableRow", children)))

TableNode(align, rows) ==
  Bind(SeqR(rows),
       LAMBDA children :
         Ok([Md("table") EXCEPT !.align = align, !.children = children]))

\* the Attribute Serializer for a block component: the directive decision is
\* taken from the component's template, the attributes are the component's
\* props in declaration order, the children its converted nested document
\* (`nested`, the conversion of props.children)
SerializedProps(plateBlock, template, nested) ==
  IF template.kind = "none" THEN Throw(ErrTemplate, plateBlock.name)
  ELSE IF ~nested.ok THEN nested
  ELSE Ok([children |-> nested.val.children,
           attributes |-> plateBlock.props.attributes,
           useDirective |-> template.match.defined,
           directiveType |-> IF template.match.defined
                             THEN template.match.type ELSE "leaf"])

serializeMdxProps(plateBlock, richTextType, nested) ==
  SerializedProps(plateBlock, TemplateFor(plateBlock.name, richTextType),
                  nested)

DirectiveAttributes(attributes) ==
  SelectSeq(attributes, LAMBDA att : att.value # <<>> /\ att.valueType = "string")

\* a bug that never takes the directive branch
convertMdxJsxFlowElementNoDirective(plateBlock, richTextType, nested) ==
  Bind(serializeMdxProps(plateBlock, richTextType, nested),
       LAMBDA ser :
         Ok([Md("mdxJsxFlowElement") EXCEPT !.name = plateBlock.name,
                                            !.attributes = ser.attributes,
                                            !.children = ser.children]))

\* case "mdxJsxFlowElement" of convertBlockElement
convertMdxJsxFlowElement(plateBlock, richTextType, nested) ==
  IF plateBlock.name = "table" THEN
    TableNode(plateBlock.props.align,
      [r \in 1..Len(plateBlock.props.tableRows) |->
         TableRow([c \in 1..Len(plateBlock.props.tableRows[r].tableCells) |->
           TableCell(FirstChildChildren(
             plateBlock.props.tableRows[r].tableCells[c].value))])])
  ELSE
  Bind(serializeMdxProps(plateBlock, richTextType, nested),
       LAMBDA ser :
         IF ser.useDirective THEN
           IF plateBlock.name = Undefined THEN Throw(ErrShortcodeName, "")
           ELSE IF ser.directiveType = "leaf" THEN
             Ok([Md("leafDirective") EXCEPT
                   !.name = plateBlock.name,
                   !.attributes = DirectiveAttributes(ser.attributes)])
           ELSE
             Ok([Md("containerDirective") EXCEPT
                   !.name = plateBlock.name,
                   !.attributes = DirectiveAttributes(ser.attributes),
                   !.children = ser.children])
         ELSE Ok([Md("mdxJsxFlowElement") EXCEPT
                    !.name = plateBlock.name,
                    !.attributes = ser.attributes,
                    !.children = ser.children]))

\* a bug that drops a block of unknown kind instead of raising
UnsupportedBlockDropped(type) == Ok(Null)

\* the default case of convertBlockElement
UnsupportedBlock(type) == Throw(ErrBlockElement, type)

\* the list node built from the converted items
\* a bug that drops a list-item child of an unmapped kind
UnsupportedBlockContentDropped(type) == Ok(Null)

\* the default branch of convertBlockContentElement
UnsupportedBlockContent(type) == Throw(ErrBlockContentElement, type)

ListNode(plateBlock, items) ==
  Bind(items,
       LAMBDA children :
         Ok([Md("list") EXCEPT !.ordered = (plateBlock.type = "ol"),
                               !.children = children]))

ParagraphNode(inlineChildren) ==
  Bind(processInlineNodes(inlineChildren),
       LAMBDA children : Ok(MdParent("paragraph", children)))

RECURSIVE Convert(_, _, _)
\* The mutually recursive conversions of the Tree Converter, by entry:
\*   "createMdastRoot", "convertBlockElement", "convertListItemElement",
\*   "convertBlockContentElement".
Convert(entry, node, richTextType) ==
  LET children(e) == SeqR([k \in 1..Len(node.children) |->
                             Convert(e, node.children[k], richTextType)])
  IN
  CASE entry = "createMdastRoot" ->
         \* forEach over the root's children: a null conversion is left out
         Bind(children("convertBlockElement"),
              LAMBDA mdastChildren :
                Ok(MdParent("root",
                     SelectSeq(mdastChildren, LAMBDA n : n.type # "null"))))
    [] entry = "convertBlockElement" ->
         CASE node.type \in {"h1", "h2", "h3", "h4", "h5", "h6"} ->
                Bind(processInlineNodes(node.children),
                     LAMBDA ch :
                       Ok([Md("heading") EXCEPT
                             !.depth = HeadingDepth(node.type),
                             !.children = ch]))
           [] node.type = "p" ->
                IF IsEmptyParagraph(node) THEN Ok(Null)
                ELSE ParagraphNode(node.children)
           [] node.type = "code_block" ->
                Ok([Md("code") EXCEPT !.lang = node.lang, !.value = node.value])
           [] node.type = "mdxJsxFlowElement" ->
                convertMdxJsxFlowElement(node, richTextType,
                  IF node.props.children = <<>> THEN Ok(MdParent("root", <<>>))
                  ELSE Convert("createMdastRoot", node.props.children[1],
                               richTextType))
           [] node.type = "blockquote" ->
                Bind(ParagraphNode(node.children),
                     LAMBDA para : Ok(MdParent("blockquote", <<para>>)))
           [] node.type = "hr" -> Ok(Md("thematicBreak"))
           [] node.type \in {"ol", "ul"} ->
                ListNode(node, children("convertListItemElement"))
           [] node.type = "html" -> Ok([Md("html") EXCEPT !.value = node.value])
           [] node.type = "img" ->
                Ok(MdParent("paragraph",
                            <<[Md("image") EXCEPT !.url = node.url]>>))
           [] node.type = "table" ->
                TableNode(node.props.align,
                  [r \in 1..Len(node.children) |->
                     TableRow([c \in 1..Len(node.children[r].children) |->
                       TableCell(FirstChildChildren(
                         <<node.children[r].children[c]>>))])])
           [] OTHER -> UnsupportedBlock(node.type)
    [] entry = "convertListItemElement" ->
         Bind(SeqR([k \in 1..Len(node.children) |->
                      IF node.children[k].type = "lic"
                      THEN ParagraphNode(node.children[k].children)
                      ELSE Convert("convertBlockContentElement",
                                   node.children[k], richTextType)]),
              LAMBDA ch : Ok(MdParent("listItem", ch)))
    [] entry = "convertBlockContentElement" ->
         CASE node.type = "blockquote" ->
                Bind(children("convertBlockContentElement"),
                     LAMBDA ch : Ok(MdParent("blockquote", ch)))
           [] node.type = "p" -> ParagraphNode(node.children)
           [] node.type \in {"ol", "ul"} ->
                ListNode(node, children("convertListItemElement"))
           [] OTHER -> UnsupportedBlockContent(node.type)

createMdastRoot(plateRoot, richTextType) ==
  Convert("createMdastRoot", plateRoot, richTextType)

convertBlockElement(plateBlock, richTextType) ==
  Convert("convertBlockElement", plateBlock, richTextType)

convertListItemElement(plateListItem, richTextType) ==
  Convert("convertListItemElement", plateListItem, richTextType)

convertBlockContentElement(plateBlock, richTextType) ==
  Convert("convertBlockContentElement", plateBlock, richTextType)

(***************************************************************************)
(* Frame of the Tree Converter: the input tree as a call leaves it.         *)
(***************************************************************************)
\* a table cell (absent: <<>>) after its conversion: the inline children of
\* its first child were given to processInlineNodes
CellAfter(cell) ==
  IF cell = <<>> THEN cell
  ELSE IF cell[1].children = <<>> THEN cell
  ELSE <<[cell[1] EXCEPT !.children[1].children = ContentAfter(@)]>>

RECURSIVE TreeAfter(_, _, _)
\* the node given to an entry of the Tree Converter as the call leaves it; a
\* child is reached only when the conversions of the children before it
\* returned
TreeAfter(entry, node, richTextType) ==
  LET children(e) ==
        [k \in 1..Len(node.children) |->
           IF \A j \in 1..(k - 1) :
                Convert(e, node.children[j], richTextType).ok
           THEN TreeAfter(e, node.children[k], richTextType)
           ELSE node.children[k]]
  IN
  CASE entry = "createMdastRoot" ->
         [node EXCEPT !.children = children("convertBlockElement")]
    [] entry = "convertBlockElement" ->
         CASE node.type \in {"h1", "h2", "h3", "h4", "h5", "h6", "blockquote"} ->
                [node EXCEPT !.children = ContentAfter(@)]
           [] node.type = "p" ->
                IF IsEmptyParagraph(node) THEN node
                ELSE [node EXCEPT !.children = ContentAfter(@)]
           [] node.type = "mdxJsxFlowElement" ->
                IF node.name = "table" THEN
                  [node EXCEPT !.props.tableRows =
                     [r \in 1..Len(@) |->
                        [tableCells |->
                           [c \in 1..Len(@[r].tableCells) |->
                              [value |-> CellAfter(@[r].tableCells[c].value)]]]]]
                ELSE IF TemplateFor(node.name, richTextType).kind = "none"
                THEN node
                ELSE [node EXCEPT !.props.children =
                        [k \in 1..Len(@) |->
                           TreeAfter("createMdastRoot", @[k], richTextType)]]
           [] node.type \in {"ol", "ul"} ->
                [node EXCEPT !.children = children("convertListItemElement")]
           [] node.type = "table" ->
                [node EXCEPT !.children =
                   [r \in 1..Len(@) |->
                      [@[r] EXCEPT !.children =
                         [c \in 1..Len(@) |-> CellAfter(<<@[c]>>)[1]]]]]
           [] OTHER -> node
    [] entry = "convertListItemElement" ->
         [node EXCEPT !.children =
            [k \in 1..Len(@) |->
               IF \A j \in 1..(k - 1) :
                    (IF @[j].type = "lic" THEN ParagraphNode(@[j].children)
                     ELSE Convert("convertBlockContentElement", @[j],
                                  richTextType)).ok
               THEN IF @[k].type = "lic"
                    THEN [@[k] EXCEPT !.children = ContentAfter(@)]
                    ELSE TreeAfter("convertBlockContentElement", @[k],
                                   richTextType)
               ELSE @[k]]]
    [] entry = "convertBlockContentElement" ->
         CASE node.type = "blockquote" ->
                [node EXCEPT !.children = children("convertBlockContentElement")]
           [] node.type = "p" -> [node EXCEPT !.children = ContentAfter(@)]
           [] node.type \in {"ol", "ul"} ->
                [node EXCEPT !.children = children("convertListItemElement")]
           [] OTHER -> node

(***************************************************************************)
(* Field configuration: the parser settings and the templates list.         *)
(***************************************************************************)
NoMatch == [defined |-> FALSE, start |-> Undefined, end |-> Undefined,
            type |-> Undefined, templateName |-> Undefined]

\* a shortcode pattern as the caller writes it (no templateName yet)
Match(type) == [defined |-> TRUE, start |-> "{{<", end |-> ">}}",
                type |-> type, templateName |-> Undefined]

Template(name, match) == [kind |-> "object", name |-> name, match |-> match]

\* a global template: a bare string in the templates list
GlobalTemplate(name) == [kind |-> "string", name |-> name, match |-> NoMatch]

MatchChoices == {NoMatch, Match("leaf"), Match("block")}

Field(parser, templates) ==
  [parser |-> parser, skipEscaping |-> Undefined, templates |-> templates]

\* the configurations of the Tree Converter: one template per component name
BlockFields ==
  {Field(Undefined, <<Template("card", m1), Template("table", m2)>>) :
     m1 \in MatchChoices, m2 \in MatchChoices}

DefaultField == Field(Undefined, <<Template("card", NoMatch),
                                   Template("table", NoMatch)>>)

(***************************************************************************)
(* Inputs of the Tree Converter.                                            *)
(***************************************************************************)
TextA == PText(<<"a">>, FALSE, FALSE, FALSE, FALSE)

TextB == PText(<<"b">>, FALSE, FALSE, FALSE, FALSE)

EmptyText == PText(<<>>, FALSE, FALSE, FALSE, FALSE)

\* a text leaf without a type, as an editor may hand it over
UntypedText(text) == [PInline(Undefined) EXCEPT !.text = text]

InlineComponent(name) == [PInline("mdxJsxTextElement") EXCEPT !.name = name]

InlineRuns ==
  { <<>>, <<EmptyText>>, <<TextA>>, <<TextA, TextB>>,
    <<PText(<<"a">>, TRUE, FALSE, FALSE, FALSE)>>,
    <<PText(<<"a">>, TRUE, TRUE, FALSE, FALSE),
      PText(<<"b">>, FALSE, TRUE, FALSE, FALSE)>>,
    <<PText(<<"a">>, FALSE, FALSE, TRUE, FALSE),
      PText(<<"b">>, FALSE, FALSE, TRUE, FALSE)>>,
    <<PText(<<>>, TRUE, FALSE, FALSE, FALSE)>>,
    <<UntypedText(<<>>)>>, <<UntypedText(<<"a">>)>>,
    <<PLink("u", <<TextA>>)>>, <<PImage("u")>>, <<TextA, PBreak>>,
    <<PText(<<"a">>, TRUE, FALSE, FALSE, FALSE),
      PLink("u", <<PText(<<"b">>, TRUE, FALSE, FALSE, FALSE)>>)>>,
    <<PLink("u", <<PText(<<"a">>, FALSE, TRUE, FALSE, FALSE),
                   PText(<<"b">>, FALSE, TRUE, FALSE, FALSE)>>)>>,
    <<InlineComponent("card")>> }

Paragraph(run) == PBlock("p", run)

Root(blocks) == PBlock("root", blocks)

CodeBlock == [PInline("code_block") EXCEPT !.lang = "js", !.value = <<"a">>]

HtmlBlock == [PInline("html") EXCEPT !.value = <<"<", "a">>]

ImageBlock == [PInline("img") EXCEPT !.url = "u"]

InvalidMarkdown(v) == [PInline("invalid_markdown") EXCEPT !.value = v]

ListItem(children) == PBlock("li", children)

ListItemContents ==
  { <<PBlock("lic", <<TextA>>)>>, <<PBlock("lic", <<EmptyText>>)>>,
    <<Paragraph(<<TextA>>)>>, <<Paragraph(<<EmptyText>>)>>,
    <<PBlock("blockquote", <<Paragraph(<<TextA>>)>>)>>,
    <<PBlock("lic", <<TextA>>),
      PBlock("ul", <<ListItem(<<PBlock("lic", <<TextB>>)>>)>>)>>,
    <<CodeBlock>>, <<PBlock("lic", <<TextA>>), PBlock("hr", <<>>)>> }

Lists ==
  {PBlock(t, <<ListItem(c)>>) : t \in {"ol", "ul"}, c \in ListItemContents}
  \cup {PBlock("ul", <<ListItem(<<PBlock("lic", <<TextA>>)>>),
                       ListItem(<<PBlock("lic", <<TextB>>)>>)>>)}

\* largest number of rows of a table, and of cells of a row
MaxRows == 2

MaxCells == 2

\* the children of a table cell
CellContents ==
  { <<Paragraph(<<TextA>>)>>, <<Paragraph(<<TextA>>), Paragraph(<<TextB>>)>>,
    <<>> }

SeqsUpTo(S, n) == UNION {[1..k -> S] : k \in 1..n}

Aligns == {NoAlign, [defined |-> TRUE, cols |-> <<"left", "right">>]}

NativeTables ==
  {[PBlock("table",
      [r \in 1..Len(rows) |->
         PBlock("tr", [c \in 1..Len(rows[r]) |-> PBlock("td", rows[r][c])])])
    EXCEPT !.props = [NoProps EXCEPT !.defined = TRUE, !.align = al]] :
     rows \in SeqsUpTo(SeqsUpTo(CellContents, MaxCells), MaxRows),
     al \in Aligns}

Component(name, props) ==
  [PInline("mdxJsxFlowElement") EXCEPT !.name = name, !.props = props,
                                        !.children = <<EmptyText>>]

\* the value of a cell of a component-encoded table: a nested document
CellValues ==
  { <<Root(<<Paragraph(<<TextA>>)>>)>>,
    <<Root(<<Paragraph(<<TextA>>), Paragraph(<<TextB>>)>>)>>, <<>> }

ComponentTables ==
  {Component("table",
     [NoProps EXCEPT !.defined = TRUE, !.align = al,
        !.tableRows = [r \in 1..Len(rows) |->
           [tableCells |-> [c \in 1..Len(rows[r]) |-> [value |-> rows[r][c]]]]]]) :
     rows \in SeqsUpTo(SeqsUpTo(CellValues, 1), MaxRows) \cup {<<>>},
     al \in Aligns}

Attribute(name, value, valueType) ==
  [name |-> name, value |-> value, valueType |-> valueType]

AttributeLists ==
  { <<>>, <<Attribute("foo", <<"a">>, "string")>>,
    <<Attribute("foo", <<"a">>, "string"), Attribute("n", <<"1">>, "expression")>>,
    <<Attribute("foo", <<>>, "string"), Attribute("bar", <<"a">>, "string")>> }

NestedDocuments ==
  { <<>>, <<Root(<<Paragraph(<<TextB>>)>>)>>,
    <<Root(<<PBlock("lic", <<TextB>>)>>)>> }

Components ==
  {Component("card",
     [NoProps EXCEPT !.defined = TRUE, !.attributes = at, !.children = ch]) :
     at \in AttributeLists, ch \in NestedDocuments}

MappedKinds ==
  {"h1", "h2", "h3", "h4", "h5", "h6", "p", "code_block", "mdxJsxFlowElement",
   "blockquote", "hr", "ol", "ul", "html", "img", "table"}

UnmappedBlocks ==
  {PBlock(t, <<TextA>>) : t \in {"lic", "li", "tr", "foo", Undefined}}
  \cup {InvalidMarkdown(<<"<", "a">>)}

Blocks ==
  {PBlock(t, r) : t \in {"h1", "h6", "p", "blockquote"}, r \in InlineRuns}
  \cup {PBlock("blockquote", <<Paragraph(<<TextA>>)>>), CodeBlock, HtmlBlock,
        ImageBlock, PBlock("hr", <<>>)}
  \cup Lists \cup NativeTables \cup ComponentTables \cup Components
  \cup UnmappedBlocks

\* the blocks paired with one another in two-block roots
PairBlocks ==
  { Paragraph(<<TextA>>), Paragraph(<<EmptyText>>), PBlock("hr", <<>>),
    PBlock("foo", <<TextA>>), InvalidMarkdown(<<"<", "a">>),
    PBlock("h1", <<PText(<<"a">>, FALSE, FALSE, TRUE, FALSE),
                   PText(<<"b">>, FALSE, FALSE, TRUE, FALSE)>>),
    PBlock("ul", <<ListItem(<<CodeBlock>>)>>) }

Roots ==
  {Root(<<>>)} \cup {Root(<<b>>) : b \in Blocks}
  \cup {Root(<<b, c>>) : b \in PairBlocks, c \in PairBlocks}

RECURSIVE HasComponent(_)
\* whether the conversion of the node reads the templates list
HasComponent(node) ==
  \/ node.type = "mdxJsxFlowElement" /\ node.name # "table"
  \/ \E k \in 1..Len(node.children) : HasComponent(node.children[k])

\* a leaf-placement shortcode is a single tag: it holds no nested document
WellPlaced(node, richTextType) ==
  (node.type = "mdxJsxFlowElement" /\ node.props.children # <<>>)
  => TemplateFor(node.name, richTextType).match.type # "leaf"

FieldsFor(node) ==
  IF HasComponent(node) THEN {f \in BlockFields : WellPlaced(node, f)}
  ELSE IF node.type = "mdxJsxFlowElement" THEN
    {f \in BlockFields : f.templates[1].match = NoMatch}
  ELSE {DefaultField}

(***************************************************************************)
(* Specification of the Tree Converter: a block or a root and a field       *)
(* configuration are drawn, then the conversion is applied.                 *)
(***************************************************************************)
InitBlock ==
  /\ pc = "ready"
  /\ \/ op = "convertBlockElement" /\ input \in Blocks
     \/ op = "createMdastRoot" /\ input \in Roots
  /\ field \in (IF op = "convertBlockElement" THEN FieldsFor(input)
                ELSE IF Len(input.children) = 1
                     THEN FieldsFor(input.children[1]) ELSE {DefaultField})
  /\ result = NoResult

CallConvertBlockElement ==
  /\ pc = "ready"
  /\ op = "convertBlockElement"
  /\ result' = convertBlockElement(input, field)
  /\ input' = TreeAfter("convertBlockElement", input, field)
  /\ pc' = "done"
  /\ UNCHANGED <<op, field>>

CallCreateMdastRoot ==
  /\ pc = "ready"
  /\ op = "createMdastRoot"
  /\ result' = createMdastRoot(input, field)
  /\ input' = TreeAfter("createMdastRoot", input, field)
  /\ pc' = "done"
  /\ UNCHANGED <<op, field>>

NextBlock == CallConvertBlockElement \/ CallCreateMdastRoot

SpecBlock == InitBlock /\ [][NextBlock]_vars

(***************************************************************************)
(* Specification of the document-to-generic conversion as a whole: a call   *)
(* of processInlineNodes, convertBlockElement or createMdastRoot.           *)
(***************************************************************************)
InitConversion == InitInline \/ InitBlock

NextConversion == NextInline \/ NextBlock

SpecConversion == InitConversion /\ [][NextConversion]_vars

(***************************************************************************)
(* Entry functions: stringifyMDX, stringifyMDXNext and                      *)
(* convertToSitepinsMarkdown.  A call returns its outcome together with the *)
(* field configuration as the call leaves it, since the configuration is an *)
(* object shared with the caller.                                           *)
(***************************************************************************)
\* the JavaScript values handed over as rootElement
JsUndefined == [js |-> "undefined", str |-> NoStr, node |-> PInline(Undefined)]

JsString(chars) == [js |-> "string", str |-> chars, node |-> PInline(Undefined)]

JsObject(node) == [js |-> "object", str |-> NoStr, node |-> node]

\* !value
Falsy(value) ==
  value.js = "undefined" \/ (value.js = "string" /\ value.str = <<>>)

\* what an entry function returns: nothing, a raw value handed back verbatim,
\* or the Markdown text of a generic tree, given by the tree, the shortcode
\* patterns of the directive extension and the rewrite passes applied to it
Out(kind, chars, tree, patterns, rewrites) ==
  [kind |-> kind, chars |-> chars, tree |-> tree, patterns |-> patterns,
   rewrites |-> rewrites]

OutUndefined == Out("undefined", NoStr, Null, <<>>, <<>>)

OutRaw(chars) == Out("raw", chars, Null, <<>>, <<>>)

OutMarkdown(tree, patterns) == Out("markdown", NoStr, tree, patterns, <<>>)

Call(ret, richTextType) == [ret |-> ret, field |-> richTextType]

\* the forEach of convertToSitepinsMarkdown over the templates: a string is
\* passed over, a template with match gets match.templateName assigned
AssignTemplateNames(templates) ==
  [k \in 1..Len(templates) |->
     IF templates[k].kind = "object" /\ templates[k].match.defined
     THEN [templates[k] EXCEPT !.match.templateName = templates[k].name]
     ELSE templates[k]]

ShortcodePatterns(templates) ==
  LET named == AssignTemplateNames(templates)
      withMatch == SelectSeq(named,
                     LAMBDA t : t.kind = "object" /\ t.match.defined)
  IN [k \in 1..Len(withMatch) |-> withMatch[k].match]

convertToSitepinsMarkdown(mdastTree, richTextType) ==
  Call(Ok(OutMarkdown(mdastTree, ShortcodePatterns(richTextType.templates))),
       [richTextType EXCEPT !.templates = AssignTemplateNames(@)])

\* a bug that lets only template objects through the filter
TemplatesWithPatternsObjectsOnly(templates) ==
  SelectSeq(templates, LAMBDA t : t.kind = "object" /\ t.match.defined)

\* templates.filter(template => template.match): the match property of a
\* string is the String method, so a global template passes the filter
TemplatesWithPatterns(templates) ==
  SelectSeq(templates, LAMBDA t : t.kind = "string" \/ t.match.defined)

\* the rewrite pass of one template over the serialized text
serializeShortcode(markdown, template) ==
  [markdown EXCEPT !.rewrites = Append(@, template.name)]

\* a bug that returns the serialized text without the rewrite passes
RewriteFromSkipped(templates, k, processedMarkdown) == Ok(processedMarkdown)

RECURSIVE RewriteFrom(_, _, _)
\* the forEach over templatesWithPatterns
RewriteFrom(templates, k, processedMarkdown) ==
  IF k > Len(templates) THEN Ok(processedMarkdown)
  ELSE IF templates[k].kind = "string" THEN Throw(ErrGlobalTemplate, "")
  ELSE RewriteFrom(templates, k + 1,
                   serializeShortcode(processedMarkdown, templates[k]))

\* the tree conversion of the markdown path: the Tree Converter, for which a
\* string has no children to walk
preProcess(value, richTextField) ==
  IF value.js = "string" THEN Ok(MdParent("root", <<>>))
  ELSE createMdastRoot(value.node, richTextField)

\* the renderer of the markdown path: a global template is a configuration
\* error, the patterns are read from the templates that declare match
toTinaMarkdown(mdTree, richTextField) ==
  IF \E k \in 1..Len(richTextField.templates) :
       richTextField.templates[k].kind = "string"
  THEN Throw(ErrGlobalTemplate, "")
  ELSE Ok(OutMarkdown(mdTree, ShortcodePatterns(richTextField.templates)))

stringifyMDXNext(value, richTextField) ==
  IF Falsy(value) THEN Ok(OutUndefined)
  ELSE Bind(preProcess(value, richTextField),
            LAMBDA mdTree : toTinaMarkdown(mdTree, richTextField))

\* stringifyMDX from the serialized text on: the rewrite passes; the
\* configuration is left as convertToSitepinsMarkdown left it
RewriteShortcodes(markdownString, richTextField) ==
  Call(RewriteFrom(TemplatesWithPatterns(richTextField.templates), 1,
                   markdownString.ret.val),
       markdownString.field)

\* stringifyMDX from the generic tree on
StringifyTree(mdastTree, richTextField) ==
  IF ~mdastTree.ok THEN Call(mdastTree, richTextField)
  ELSE RewriteShortcodes(convertToSitepinsMarkdown(mdastTree.val, richTextField),
                         richTextField)

stringifyMDX(rootElement, richTextField) ==
  IF richTextField.parser = "markdown"
  THEN Call(stringifyMDXNext(rootElement, richTextField), richTextField)
  ELSE IF Falsy(rootElement) THEN Call(Ok(OutUndefined), richTextField)
  ELSE IF rootElement.js = "string"
  THEN Call(Throw(ErrString, ""), richTextField)
  ELSE IF rootElement.node.children # <<>>
          /\ rootElement.node.children[1].type = "invalid_markdown"
  THEN Call(Ok(OutRaw(rootElement.node.children[1].value)), richTextField)
  ELSE StringifyTree(createMdastRoot(rootElement.node, richTextField),
                     richTextField)

(***************************************************************************)
(* Inputs of the entry functions.                                           *)
(***************************************************************************)
RawValue == <<"<", "a">>

EntryRootNodes ==
  { Root(<<>>), Root(<<InvalidMarkdown(RawValue)>>),
    Root(<<InvalidMarkdown(<<>>)>>),
    Root(<<InvalidMarkdown(RawValue), Paragraph(<<TextA>>)>>),
    Root(<<Paragraph(<<TextA>>), InvalidMarkdown(RawValue)>>),
    Root(<<Paragraph(<<TextA>>)>>), Root(<<Paragraph(<<EmptyText>>)>>),
    Root(<<PBlock("foo", <<TextA>>)>>),
    Root(<<PBlock("h1", <<PText(<<"a">>, FALSE, FALSE, TRUE, FALSE),
                          PText(<<"b">>, FALSE, FALSE, TRUE, FALSE)>>)>>),
    Root(<<Component("card", [NoProps EXCEPT !.defined = TRUE])>>),
    Root(<<Paragraph(<<TextA>>),
           Component("card", [NoProps EXCEPT !.defined = TRUE,
              !.attributes = <<Attribute("foo", <<"a">>, "string")>>])>>) }

EntryRoots ==
  {JsUndefined, JsString(<<>>), JsString(<<"a">>), JsString(RawValue)}
  \cup {JsObject(n) : n \in EntryRootNodes}

EntryTemplates ==
  { <<>>, <<Template("card", NoMatch)>>, <<Template("card", Match("block"))>>,
    <<Template("card", Match("leaf")), Template("note", Match("block"))>>,
    <<GlobalTemplate("g")>>,
    <<Template("card", Match("block")), GlobalTemplate("g")>>,
    <<GlobalTemplate("g"), Template("card", NoMatch)>> }

EntryFields ==
  {Field(p, t) : p \in {Undefined, "mdx", "markdown"}, t \in EntryTemplates}

\* the generic trees given to convertToSitepinsMarkdown
EntryTrees ==
  { MdParent("root", <<>>),
    MdParent("root", <<MdParent("paragraph", <<createMdTextNode(TextA)>>)>>),
    MdParent("root", <<[Md("containerDirective") EXCEPT !.name = "card"]>>) }

(***************************************************************************)
(* Specification of the entry functions: a root (or a generic tree) and a   *)
(* field configuration are drawn, then the entry function is called; the    *)
(* call leaves its outcome in result and the configuration, as the call     *)
(* left it, in field.                                                       *)
(***************************************************************************)
Init ==
  /\ pc = "ready"
  /\ \/ op = "stringifyMDX" /\ input \in EntryRoots
     \/ op = "convertToSitepinsMarkdown" /\ input \in EntryTrees
  /\ field \in EntryFields
  /\ result = NoResult

\* the call ends: its outcome and the configuration as the call left it
Returns(call) ==
  /\ result' = call.ret
  /\ field' = call.field
  /\ pc' = "done"
  /\ UNCHANGED <<op, input>>

CallStringifyMDX ==
  /\ pc = "ready"
  /\ op = "stringifyMDX"
  /\ Returns(stringifyMDX(input, field))

CallConvertToSitepinsMarkdown ==
  /\ pc = "ready"
  /\ op = "convertToSitepinsMarkdown"
  /\ Returns(convertToSitepinsMarkdown(input, field))

Next == CallStringifyMDX \/ CallConvertToSitepinsMarkdown

Spec == Init /\ [][Next]_vars

(***************************************************************************)
(* The text handler installed by convertToSitepinsMarkdown.  The serializer *)
(* calls it with a text node and its context, whose unsafe list names the   *)
(* characters to escape and the construct each is unsafe in; the handler    *)
(* filters the list, which stays filtered in the context, and returns the   *)
(* text to emit.                                                            *)
(***************************************************************************)
Unsafe(character, inConstruct) ==
  [character |-> character, inConstruct |-> inConstruct]

RECURSIVE Escaped(_, _)
\* the value with a backslash before each of the given characters
Escaped(value, characters) ==
  IF value = <<>> THEN <<>>
  ELSE (IF Head(value) \in characters THEN <<"\\", Head(value)>>
        ELSE <<Head(value)>>) \o Escaped(Tail(value), characters)

\* the serializer's own text handler: the value, escaped by the unsafe list
handleText(node, unsafe) ==
  Escaped(node.value, {unsafe[k].character : k \in 1..Len(unsafe)})

\* the first filter of the handler: the spaces unsafe in phrasing
WithoutPhrasingSpaces(unsafe) ==
  SelectSeq(unsafe, LAMBDA unsafeItem :
    ~(unsafeItem.character = " " /\ unsafeItem.inConstruct = "phrasing"))

\* the second filter, of skipEscaping "html"
WithoutLessThan(unsafe) ==
  SelectSeq(unsafe, LAMBDA unsafeItem : unsafeItem.character # "<")

\* the list the handler leaves in the context
UnsafeAfter(unsafe, richTextType) ==
  IF richTextType.parser = "markdown" /\ richTextType.skipEscaping = "html"
  THEN WithoutLessThan(WithoutPhrasingSpaces(unsafe))
  ELSE WithoutPhrasingSpaces(unsafe)

\* customHandlers["text"]
TextHandler(node, unsafe, richTextType) ==
  IF richTextType.parser = "markdown" /\ richTextType.skipEscaping = "all"
  THEN node.value
  ELSE handleText(node, UnsafeAfter(unsafe, richTextType))

(***************************************************************************)
(* Inputs of the text handler.                                              *)
(***************************************************************************)
\* longest text value given to the text handler
MaxText == 3

TextCharacters == {"a", "<", "*", " "}

RECURSIVE TextsUpTo(_)
TextsUpTo(n) ==
  IF n = 0 THEN {<<>>}
  ELSE TextsUpTo(n - 1)
       \cup {Append(t, c) : t \in {u \in TextsUpTo(n - 1) : Len(u) = n - 1},
                            c \in TextCharacters}

UnsafeLists ==
  { <<>>,
    <<Unsafe(" ", "phrasing"), Unsafe("<", "phrasing"), Unsafe("*", "phrasing")>>,
    <<Unsafe("<", "phrasing"), Unsafe(" ", "phrasing"), Unsafe("<", "paragraph")>> }

\* skipEscaping is a property of the parser object: absent when parser is
TextFields ==
  {Field(Undefined, <<>>)}
  \cup {[Field(p, <<>>) EXCEPT !.skipEscaping = e] :
          p \in {"mdx", "markdown"}, e \in {Undefined, "all", "html"}}

(***************************************************************************)
(* Specification of the text handler: a text node, the unsafe list of its   *)
(* context and a field configuration are drawn, then the serializer calls   *)
(* the handler; the emitted text is left in result, the context's list in   *)
(* input.                                                                   *)
(***************************************************************************)
InitText ==
  /\ pc = "ready"
  /\ op = "text"
  /\ input \in {[node |-> [Md("text") EXCEPT !.value = v], unsafe |-> u] :
                  v \in TextsUpTo(MaxText), u \in UnsafeLists}
  /\ field \in TextFields
  /\ result = NoResult

CallTextHandler ==
  /\ pc = "ready"
  /\ op = "text"
  /\ result' = Ok(TextHandler(input.node, input.unsafe, field))
  /\ input' = [input EXCEPT !.unsafe = UnsafeAfter(@, field)]
  /\ pc' = "done"
  /\ UNCHANGED <<op, field>>

NextText == CallTextHandler

SpecText == InitText /\ [][NextText]_vars

(***************************************************************************)
(* Shortcode grammar: shortcodeParser rewrites the shortcode tags of a      *)
(* template into element tags.  A text is the sequence of its lexical       *)
(* units: a delimiter, a blank, a line break, a quote, an equals sign, a    *)
(* slash or a word.                                                         *)
(***************************************************************************)
Blank == " "

LineBreak == "\n"

Quote == "\""

\* a template as shortcodeParser reads it: its name, its pattern (start, end
\* and the optional name override) and the names and kinds of its fields
ParserTemplate(name, matchName, fields) ==
  [name |-> name,
   match |-> [start |-> "{{<", end |-> ">}}", name |-> matchName],
   fields |-> fields]

TemplateField(name, type) == [name |-> name, type |-> type]

\* the name written between the delimiters
NameToken(template) ==
  IF template.match.name # Undefined THEN template.match.name
  ELSE template.name

\* the template declares a rich-text field named children
HasChildren(template) ==
  \E k \in 1..Len(template.fields) :
    template.fields[k].name = "children" /\ template.fields[k].type = "rich-text"

RECURSIVE SkipBlanks(_, _)
\* the first position from k on that holds no blank (Len + 1 when none)
SkipBlanks(text, k) ==
  IF k <= Len(text) /\ text[k] = Blank THEN SkipBlanks(text, k + 1) ELSE k

RECURSIVE AttributeTokens(_, _)
\* the attribute tokens of a tag: the runs of units between blanks; `token`
\* is the run read so far
AttributeTokens(units, token) ==
  IF units = <<>> THEN (IF token = <<>> THEN <<>> ELSE <<token>>)
  ELSE IF Head(units) = Blank
  THEN (IF token = <<>> THEN <<>> ELSE <<token>>)
       \o AttributeTokens(Tail(units), <<>>)
  ELSE AttributeTokens(Tail(units), Append(token, Head(units)))

\* a token of the form key="value" (or key=value)
IsKeyed(token) == Len(token) >= 2 /\ token[2] = "="

\* a token without its enclosing quotes
Unquoted(token) == SelectSeq(token, LAMBDA u : u # Quote)

\* a bug that leaves a bare token without a name
BoundAttributeUnnamed(token) == token

\* the attribute an attribute token is bound to: a key="value" token binds by
\* its name, a bare token binds to the reserved field _value
BoundAttribute(token) ==
  IF IsKeyed(token) THEN token
  ELSE <<"_value", "=", Quote>> \o Unquoted(token) \o <<Quote>>

RECURSIVE JoinTokens(_)
JoinTokens(tokens) ==
  IF tokens = <<>> THEN <<>>
  ELSE IF Len(tokens) = 1 THEN tokens[1]
  ELSE tokens[1] \o <<Blank>> \o JoinTokens(Tail(tokens))

NoTag == [found |-> FALSE, attributes |-> <<>>, next |-> 0]

\* the position of the first end delimiter from k on that no line break
\* precedes, 0 when there is none
EndDelimiterFrom(text, k, template) ==
  LET ends == {j \in k..Len(text) :
                 /\ text[j] = template.match.end
                 /\ \A i \in k..(j - 1) : text[i] # LineBreak}
  IN IF ends = {} THEN 0 ELSE CHOOSE j \in ends : \A i \in ends : j <= i

OpenTagFrom(text, afterName, endAt) ==
  IF endAt = 0 THEN NoTag
  ELSE [found |-> TRUE,
        attributes |-> AttributeTokens(SubSeq(text, afterName, endAt - 1), <<>>),
        next |-> endAt + 1]

\* an opening tag at position k: start, the name, the attribute tokens, end
OpenTagAt(text, k, template) ==
  IF text[k] # template.match.start THEN NoTag
  ELSE IF SkipBlanks(text, k + 1) > Len(text) THEN NoTag
  ELSE IF text[SkipBlanks(text, k + 1)] # NameToken(template) THEN NoTag
  ELSE OpenTagFrom(text, SkipBlanks(text, k + 1) + 1,
                   EndDelimiterFrom(text, SkipBlanks(text, k + 1) + 1, template))

\* a closing tag at position k: start, a slash, the name, end
CloseTagAt(text, k, template) ==
  LET slash == SkipBlanks(text, k + 1)
      name == SkipBlanks(text, slash + 1)
      end == SkipBlanks(text, name + 1)
  IN IF /\ end <= Len(text)
        /\ text[k] = template.match.start
        /\ text[slash] = "/"
        /\ text[name] = NameToken(template)
        /\ text[end] = template.match.end
     THEN [found |-> TRUE, attributes |-> <<>>, next |-> end + 1]
     ELSE NoTag

\* the position of the first closing tag from k on, 0 when there is none
CloseTagFrom(text, k, template) ==
  LET closes == {j \in k..Len(text) : CloseTagAt(text, j, template).found}
  IN IF closes = {} THEN 0 ELSE CHOOSE j \in closes : \A i \in closes : j <= i

\* the opening tag of the element written for a shortcode
ElementOpen(template, attributes) ==
  <<"<", template.name, Blank>>
  \o JoinTokens([k \in 1..Len(attributes) |-> BoundAttribute(attributes[k])])
  \o <<">">>

\* a bug that closes the element with the name written between the delimiters
ElementCloseByPatternName(template) == <<"</", NameToken(template), ">">>

ElementClose(template) == <<"</", template.name, ">">>

RECURSIVE RewriteFrom1(_, _, _)
\* the text from position k on with every shortcode of the template
\* rewritten; a template with children needs the closing tag as well
RewriteTag(text, k, template, open, closeAt) ==
  IF ~open.found THEN <<text[k]>> \o RewriteFrom1(text, k + 1, template)
  ELSE IF ~HasChildren(template)
  THEN ElementOpen(template, open.attributes) \o <<LineBreak>>
       \o ElementClose(template) \o RewriteFrom1(text, open.next, template)
  ELSE IF closeAt = 0
  THEN <<text[k]>> \o RewriteFrom1(text, k + 1, template)
  ELSE ElementOpen(template, open.attributes)
       \o SubSeq(text, open.next, closeAt - 1)
       \o ElementClose(template)
       \o RewriteFrom1(text, CloseTagAt(text, closeAt, template).next, template)

RewriteAt(text, k, template, open) ==
  RewriteTag(text, k, template, open,
             IF open.found THEN CloseTagFrom(text, open.next, template) ELSE 0)

RewriteFrom1(text, k, template) ==
  IF k > Len(text) THEN <<>>
  ELSE RewriteAt(text, k, template, OpenTagAt(text, k, template))

shortcodeParser(preprocessedString, template) ==
  RewriteFrom1(preprocessedString, 1, template)

(***************************************************************************)
(* Inputs of shortcodeParser.                                               *)
(***************************************************************************)
KeyedTemplate ==
  ParserTemplate("signature", Undefined, <<TemplateField("foo", "string")>>)

UnkeyedTemplate ==
  ParserTemplate("signature", Undefined, <<TemplateField("_value", "string")>>)

ChildrenTemplate ==
  ParserTemplate("signature", Undefined,
                 <<TemplateField("children", "rich-text")>>)

\* the name between the delimiters differs from the template's name
OverrideTemplate ==
  ParserTemplate("signature", "sig-nature",
                 <<TemplateField("children", "rich-text")>>)

ParserTemplates ==
  {KeyedTemplate, UnkeyedTemplate, ChildrenTemplate, OverrideTemplate}

Blanks == {<<>>, <<Blank>>}

AttributeTexts ==
  { <<>>, <<Quote, "bar123", Quote>>, <<"bar123">>,
    <<"foo", "=", Quote, "bar123", Quote>>,
    <<"foo", "=", Quote, "a", Quote, Blank, "bar", "=", Quote, "b", Quote>> }

OpenTagText(b1, name, attributes, b2) ==
  <<"{{<">> \o b1 \o <<name>>
  \o (IF attributes = <<>> THEN <<>> ELSE <<Blank>> \o attributes)
  \o b2 \o <<">}}">>

CloseTagText(name) == <<"{{<", Blank, "/", name, Blank, ">}}">>

BodyTexts ==
  { <<>>, <<LineBreak, "#", Blank, "FOO", LineBreak, "##Bar", LineBreak>>,
    <<LineBreak, "a", Blank, "<", "b", ">", LineBreak>> }

\* what follows the opening tag: nothing, a body, or a body and a closing tag
TailTexts ==
  BodyTexts
  \cup {b \o CloseTagText(n) : b \in BodyTexts, n \in {"signature", "sig-nature"}}

ShortcodeTexts ==
  {pre \o OpenTagText(b1, n, at, b2) \o tl :
     pre \in {<<>>, <<"a", LineBreak>>}, b1 \in Blanks,
     n \in {"signature", "sig-nature", "other"}, at \in AttributeTexts,
     b2 \in Blanks, tl \in TailTexts}

(***************************************************************************)
(* Specification of shortcodeParser: a text and a template are drawn, then  *)
(* the text is rewritten.                                                   *)
(***************************************************************************)
InitShortcode ==
  /\ pc = "ready"
  /\ op = "shortcodeParser"
  /\ input \in ShortcodeTexts
  /\ field \in ParserTemplates
  /\ result = NoResult

CallShortcodeParser ==
  /\ pc = "ready"
  /\ op = "shortcodeParser"
  /\ result' = Ok(shortcodeParser(input, field))
  /\ pc' = "done"
  /\ UNCHANGED <<op, input, field>>

NextShortcode == CallShortcodeParser

SpecShortcode == InitShortcode /\ [][NextShortcode]_vars

(***************************************************************************)
(* Parse-direction rule: a mark wrapper propagates its flag onto every      *)
(* descendant leaf, merged with the flags of the enclosing wrappers.        *)
(***************************************************************************)
NoFlags == [bold |-> FALSE, italic |-> FALSE, code |-> FALSE,
            strikethrough |-> FALSE]

Leaf(text, fl) ==
  [text |-> text, bold |-> fl.bold, italic |-> fl.italic, code |-> fl.code,
   strikethrough |-> fl.strikethrough]

WithMark(fl, mark) ==
  CASE mark = "strong" -> [fl EXCEPT !.bold = TRUE]
    [] mark = "emphasis" -> [fl EXCEPT !.italic = TRUE]
    [] mark = "inlineCode" -> [fl EXCEPT !.code = TRUE]
    [] mark = "delete" -> [fl EXCEPT !.strikethrough = TRUE]

RECURSIVE ExpandMarks(_, _)
ExpandMarks(nodes, fl) ==
  IF nodes = <<>> THEN <<>>
  ELSE LET n == Head(nodes)
           here ==
             CASE n.type = "text" -> <<Leaf(n.value, fl)>>
               [] n.type = "inlineCode" ->
                    <<Leaf(n.value, WithMark(fl, "inlineCode"))>>
               [] n.type \in {"strong", "emphasis", "delete"} ->
                    ExpandMarks(n.children, WithMark(fl, n.type))
               [] n.type = "link" -> ExpandMarks(n.children, fl)
               [] OTHER -> <<>>
       IN here \o ExpandMarks(Tail(nodes), fl)

\* the texts and flags of a sibling list of text leaves
LeafFlags(nodes) ==
  [k \in 1..Len(nodes) |-> Leaf(nodes[k].text, nodes[k])]

InlineDone == pc = "done" /\ op = "processInlineNodes"

\* C2: whenever processInlineNodes returns, expanding the wrapper tree gives
\* back the same leaf texts in the same order, each with exactly its flags.
C2_MarksSurviveStringify ==
  (InlineDone /\ result.ok) => ExpandMarks(result.val, NoFlags) = LeafFlags(input)

RECURSIVE CountType(_, _)
\* number of nodes of the given type in a generic phrasing forest
CountType(nodes, type) ==
  IF nodes = <<>> THEN 0
  ELSE (IF Head(nodes).type = type THEN 1 ELSE 0)
       + CountType(Head(nodes).children, type)
       + CountType(Tail(nodes), type)

\* C3: a run whose leaves all carry bold and never code is returned as exactly
\* one strong wrapper around the whole run, the other marks nested inside it
\* around the leaves that carry them only.
C3_BoldRunOneStrongWrapper ==
  (InlineDone /\ input # <<>>
     /\ \A k \in 1..Len(input) : input[k].bold /\ ~input[k].code)
  => /\ result.ok
     /\ Len(result.val) = 1
     /\ result.val[1].type = "strong"
     /\ CountType(result.val, "strong") = 1
     /\ ExpandMarks(result.val, NoFlags) = LeafFlags(input)

AdjacentCodeAt(k) ==
  k + 1 <= Len(input) /\ input[k].code /\ input[k + 1].code

BlockDone == pc = "done" /\ op = "convertBlockElement"

RootDone == pc = "done" /\ op = "createMdastRoot"

IsDirective(node) == node.type \in {"leafDirective", "containerDirective"}

DeclaresPattern(name) == TemplateFor(name, field).match.defined

FirstRaising(root) ==
  LET bad == {k \in 1..Len(root.children) :
                ~convertBlockElement(root.children[k], field).ok}
  IN IF bad = {} THEN 0 ELSE CHOOSE k \in bad : \A j \in bad : k <= j

\* C6: a block of an unmapped type makes convertBlockElement raise the error
\* that names the type, createMdastRoot raises that same error when such a
\* block is the first of its children to fail, and convertBlockElement
\* returns null for the empty paragraph only.
C6_UnmappedBlockRaises ==
  /\ (BlockDone /\ input.type \notin MappedKinds)
       => result = Throw(ErrBlockElement, input.type)
  /\ BlockDone
       => ((result.ok /\ result.val.type = "null") <=> IsEmptyParagraph(input))
  /\ (RootDone /\ \E k \in 1..Len(input.children) :
                     input.children[k].type \notin MappedKinds)
       => /\ ~result.ok
          /\ input.children[FirstRaising(input)].type \notin MappedKinds
               => result = Throw(ErrBlockElement,
                                 input.children[FirstRaising(input)].type)

C6_Witness ==
  /\ RootDone /\ Len(input.children) = 2
  /\ input.children[1].type = "p" /\ input.children[2].type = "foo"
  /\ result = Throw(ErrBlockElement, "foo")

RECURSIVE PlateTexts(_)
\* the non-empty texts of the text leaves of a rich document node, those of
\* nested documents and of the cells of a component-encoded table included
PlateTexts(node) ==
  (IF node.type \in {"text", Undefined} /\ node.text \notin {NoStr, <<>>}
   THEN {node.text} ELSE {})
  \cup UNION {PlateTexts(node.children[k]) : k \in 1..Len(node.children)}
  \cup UNION {PlateTexts(node.props.children[k]) :
                k \in 1..Len(node.props.children)}
  \cup UNION {PlateTexts(node.props.tableRows[r].tableCells[c].value[1]) :
                <<r, c>> \in
                  {rc \in (1..MaxRows) \X (1..MaxCells) :
                     /\ rc[1] <= Len(node.props.tableRows)
                     /\ rc[2] <= Len(node.props.tableRows[rc[1]].tableCells)
                     /\ node.props.tableRows[rc[1]].tableCells[rc[2]].value
                          # <<>>}}

RECURSIVE MdTexts(_)
\* the values of the text and inlineCode nodes of a generic tree
MdTexts(node) ==
  (IF node.type \in {"text", "inlineCode"} THEN {node.value} ELSE {})
  \cup UNION {MdTexts(node.children[k]) : k \in 1..Len(node.children)}

\* C7: whenever createMdastRoot returns, every non-empty text leaf of the
\* input occurs in the returned generic tree.
C7_NoContentDropped ==
  (RootDone /\ result.ok) => PlateTexts(input) \subseteq MdTexts(result.val)

(***************************************************************************)
(* Properties of the entry functions.                                       *)
(***************************************************************************)
StringifyDone == pc = "done" /\ op = "stringifyMDX"

HasGlobalTemplate ==
  \E k \in 1..Len(field.templates) : field.templates[k].kind = "string"

SentinelFirst ==
  /\ input.js = "object" /\ input.node.children # <<>>
  /\ input.node.children[1].type = "invalid_markdown"

\* C1: for a root whose only child is an invalid_markdown node with value v,
\* stringifyMDX returns exactly v under every field configuration.
C1_SentinelReturnedVerbatim ==
  (StringifyDone /\ SentinelFirst /\ Len(input.node.children) = 1)
  => result = Ok(OutRaw(input.node.children[1].value))

\* C8: stringifyMDX given a string raises 'Expected an object to stringify,
\* but received a string', for every string and every parser type.
C8_StringAlwaysRaises ==
  (StringifyDone /\ input.js = "string") => result = Throw(ErrString, "")

C10_FieldConfigUnchanged == [][field' = field]_vars

ShortcodeDone == pc = "done" /\ op = "shortcodeParser"

\* the element written for one attribute, a line break and the closing tag
ElementWith(attribute) ==
  <<"<", "signature", Blank>> \o attribute
  \o <<">", LineBreak, "</", "signature", ">">>

\* C12: for a template without children, the tag '{{< signature "w" >}}' is
\* rewritten to the element with the attribute _value="w", and the tag
\* '{{< signature k="w">}}' to the element with the attribute k="w", each
\* followed by a line break and the closing tag.
C12_AttributeTokenKeepsBinding ==
  (ShortcodeDone /\ ~HasChildren(field))
  => /\ (/\ Len(input) = 9
         /\ input = <<"{{<", Blank, "signature", Blank, Quote, input[6],
                      Quote, Blank, ">}}">>)
          => result.val = ElementWith(<<"_value", "=", Quote, input[6], Quote>>)
     /\ (/\ Len(input) = 10
         /\ input = <<"{{<", Blank, "signature", Blank, input[5], "=", Quote,
                      input[8], Quote, ">}}">>)
          => result.val = ElementWith(<<input[5], "=", Quote, input[8], Quote>>)

C12_Witness ==
  /\ ShortcodeDone /\ field = UnkeyedTemplate
  /\ input = <<"{{<", Blank, "signature", Blank, Quote, "bar123", Quote,
               Blank, ">}}">>
  /\ result.val = <<"<", "signature", Blank, "_value", "=", Quote, "bar123",
                    Quote, ">", LineBreak, "</", "signature", ">">>

\* C13: for a template with a rich-text children field, an opening tag, a
\* text and the closing tag are rewritten to the element's opening tag, the
\* same text unit for unit, and the element's closing tag.
C13_ChildrenTextUnchanged ==
  (ShortcodeDone /\ HasChildren(field))
  => \A b1 \in Blanks, b2 \in Blanks, body \in BodyTexts :
       input = OpenTagText(b1, NameToken(field), <<>>, b2) \o body
               \o CloseTagText(NameToken(field))
       => result.val = <<"<", "signature", Blank, ">">> \o body
                       \o <<"</", "signature", ">">>

C13_Witness ==
  /\ ShortcodeDone /\ field = ChildrenTemplate
  /\ input = <<"{{<", Blank, "signature", Blank, ">}}", LineBreak, "#", Blank,
               "FOO", LineBreak, "##Bar", LineBreak, "{{<", Blank, "/",
               "signature", Blank, ">}}">>
  /\ result.val = <<"<", "signature", Blank, ">", LineBreak, "#", Blank, "FOO",
                    LineBreak, "##Bar", LineBreak, "</", "signature", ">">>

(***************************************************************************)
(* Properties of the table conversion.                                      *)
(***************************************************************************)
\* the component-encoded table with the alignment and the cell contents of a
\* native table: the value of a cell is a document holding the cell's children
ComponentEncoding(table) ==
  Component("table",
    [NoProps EXCEPT
       !.defined = TRUE, !.align = table.props.align,
       !.tableRows =
         [r \in 1..Len(table.children) |->
            [tableCells |->
               [c \in 1..Len(table.children[r].children) |->
                  [value |-> <<Root(table.children[r].children[c].children)>>]]]]])

\* the native table with the alignment and the cell contents of a
\* component-encoded table
NativeEncoding(component) ==
  [PBlock("table",
     [r \in 1..Len(component.props.tableRows) |->
        PBlock("tr",
          [c \in 1..Len(component.props.tableRows[r].tableCells) |->
             PBlock("td",
               IF component.props.tableRows[r].tableCells[c].value = <<>>
               THEN <<>>
               ELSE component.props.tableRows[r].tableCells[c].value[1].children)])])
   EXCEPT !.props = [NoProps EXCEPT !.defined = TRUE,
                                    !.align = component.props.align]]

\* C14: a native table and the component-encoded table with the same
\* alignment and the same cell contents convert to equal outcomes: equal
\* table nodes, or the same error.
C14_TableShapesConvertEqual ==
  /\ (BlockDone /\ input.type = "table")
       => result = convertBlockElement(ComponentEncoding(input), field)
  /\ (BlockDone /\ input.type = "mdxJsxFlowElement" /\ input.name = "table")
       => result = convertBlockElement(NativeEncoding(input), field)

C14_Witness ==
  /\ BlockDone /\ input.type = "table" /\ input.props.align.defined
  /\ Len(input.children) = 2 /\ Len(input.children[2].children) = 2
  /\ result.ok /\ result.val.type = "table"
  /\ result.val.align.defined /\ Len(result.val.children) = 2
  /\ result.val.children[2].children[2].children # <<>>

\* C15: every table node returned by convertBlockElement is rectangular: all
\* of its rows hold the same number of cells.
C15_TablesRectangular ==
  (BlockDone /\ result.ok /\ result.val.type = "table")
  => \A r1 \in 1..Len(result.val.children), r2 \in 1..Len(result.val.children) :
       Len(result.val.children[r1].children)
         = Len(result.val.children[r2].children)

(***************************************************************************)
(* Properties of empty paragraphs.                                          *)
(***************************************************************************)
\* the children of a rich document node that are not empty paragraphs
KeptChildren(node) ==
  {k \in 1..Len(node.children) : ~IsEmptyParagraph(node.children[k])}

\* C16: a paragraph whose sole child is an empty text leaf produces no node:
\* convertBlockElement returns null for it, createMdastRoot returns one child
\* per block that is not such a paragraph, and so does every list item of a
\* returned list.
C16_EmptyParagraphProducesNothing ==
  /\ (BlockDone /\ IsEmptyParagraph(input)) => result = Ok(Null)
  /\ (RootDone /\ result.ok)
       => Len(result.val.children) = Cardinality(KeptChildren(input))
  /\ (BlockDone /\ input.type \in {"ol", "ul"} /\ result.ok)
       => \A i \in 1..Len(input.children) :
            Len(result.val.children[i].children)
              = Cardinality(KeptChildren(input.children[i]))

(***************************************************************************)
(* Properties of the collapsed wrapper tree.                                *)
(***************************************************************************)
\* the flagged text leaves a wrapper forest expands to
Reparsed(nodes) ==
  LET leaves == ExpandMarks(nodes, NoFlags)
  IN [k \in 1..Len(leaves) |->
        PText(leaves[k].text, leaves[k].bold, leaves[k].italic,
              leaves[k].code, leaves[k].strikethrough)]

\* C17: whenever processInlineNodes returns a forest, expanding the forest to
\* flagged leaves and applying processInlineNodes to them returns a forest
\* equal to the first one.
C17_CollapseRoundTripStable ==
  (InlineDone /\ result.ok) => processInlineNodes(Reparsed(result.val)) = result

\* C18: no forest returned by processInlineNodes holds an inlineCode node
\* beneath a strong, emphasis or delete wrapper.
C18_NoCodeInsideWrapper ==
  (InlineDone /\ result.ok)
  => \A k \in 1..Len(result.val) :
       result.val[k].type \in {"strong", "emphasis", "delete"}
         => CountType(result.val[k].children, "inlineCode") = 0

(***************************************************************************)
(* Properties of the choice of the wrapper.                                 *)
(***************************************************************************)
\* number of consecutive leaves from the start of the list, the first leaf
\* included, that carry the mark (which the first leaf carries)
LeadingCount(content, mark) ==
  CHOOSE k \in 1..Len(content) :
    /\ \A j \in 1..k : Includes(getNodeMarks(content[j]), mark)
    /\ k = Len(content) \/ ~Includes(getNodeMarks(content[k + 1]), mark)

\* the mark of the first leaf with the largest leading count, the earliest
\* of the order strong, emphasis, inlineCode, delete among equals
LongestLeadingMark(content) ==
  LET marks == getNodeMarks(content[1])
      best == CHOOSE i \in 1..Len(marks) :
                \A j \in 1..Len(marks) :
                  \/ LeadingCount(content, marks[j]) < LeadingCount(content, marks[i])
                  \/ /\ LeadingCount(content, marks[j]) = LeadingCount(content, marks[i])
                     /\ i <= j
  IN marks[best]

\* C19: when the first leaf carries a mark and processInlineNodes returns a
\* forest, the first node of the forest is of the mark carried by the largest
\* number of consecutive leaves from the start, the first leaf included, and of
\* the earliest such mark among equals.
C19_LongestLeadingMarkChosen ==
  (InlineDone /\ result.ok /\ input # <<>> /\ getNodeMarks(input[1]) # <<>>)
  => result.val[1].type = LongestLeadingMark(input)

\* number of leaves (text and inlineCode nodes) of a generic phrasing forest
CountLeaves(nodes) == CountType(nodes, "text") + CountType(nodes, "inlineCode")

\* C20: when processInlineNodes returns a forest that begins with a wrapper,
\* the wrapper holds exactly the leaves of the contiguous prefix of the list
\* that carry the wrapper's mark, and the rest of the forest holds the others.
C20_WrapperEnclosesCarryingPrefix ==
  (InlineDone /\ result.ok /\ input # <<>>
     /\ getNodeMarks(input[1]) # <<>>
     /\ result.val[1].type \in {"strong", "emphasis", "delete"})
  => /\ CountLeaves(result.val[1].children)
          = LeadingCount(input, result.val[1].type)
     /\ CountLeaves(Tail(result.val))
          = Len(input) - LeadingCount(input, result.val[1].type)

(***************************************************************************)
(* Properties of the inline-code error.                                     *)
(***************************************************************************)
\* C21: processInlineNodes raises the inline-code error only on a list that
\* holds two consecutive leaves flagged code; on every other list it returns
\* a forest with one inlineCode node per leaf flagged code.
C21_CodeErrorOnlyForAdjacentCode ==
  /\ (InlineDone /\ result = Throw(ErrInlineCode, ""))
       => \E k \in 1..Len(input) : AdjacentCodeAt(k)
  /\ (InlineDone /\ ~\E k \in 1..Len(input) : AdjacentCodeAt(k))
       => /\ result.ok
          /\ CountType(result.val, "inlineCode")
               = Cardinality({k \in 1..Len(input) : input[k].code})

(***************************************************************************)
(* Properties of links and other inline nodes among marked text.            *)
(***************************************************************************)
\* a link whose single child is a text leaf
IsTrivialLink(node) ==
  node.type = "a" /\ Len(node.children) = 1 /\ node.children[1].type = "text"

\* a bold text leaf, or a trivial link whose text leaf is bold
IsBoldTextOrLink(node) ==
  \/ node.type = "text" /\ node.bold
  \/ IsTrivialLink(node) /\ node.children[1].bold

\* C22: a list of bold text leaves and trivial links with a bold text leaf is
\* returned as one strong wrapper that holds every leaf and every link.
C22_BoldAcrossTrivialLink ==
  (InlineDone /\ input # <<>>
     /\ \A k \in 1..Len(input) : IsBoldTextOrLink(input[k]))
  => /\ result.ok
     /\ Len(result.val) = 1
     /\ result.val[1].type = "strong"
     /\ CountType(result.val, "strong") = 1
     /\ CountLeaves(result.val) = Len(input)
     /\ CountType(result.val, "link")
          = Cardinality({k \in 1..Len(input) : input[k].type = "a"})

\* an inline node that is neither a text leaf nor a trivial link
IsOpaqueInline(node) == node.type # "text" /\ ~IsTrivialLink(node)

BoldOnly(node) ==
  /\ node.type = "text" /\ node.bold
  /\ ~node.italic /\ ~node.code /\ ~node.strikethrough

StrongAround(node) == MdParent("strong", <<createMdTextNode(node)>>)

\* C23: no wrapper of a returned forest holds an image, a break, a raw HTML
\* node or a custom component; and a list 'bold leaf, opaque node, bold leaf'
\* is returned as a strong wrapper around the first leaf, the opaque node's
\* own conversion, and a second strong wrapper around the last leaf.
C23_OpaqueNodeBreaksMarkRun ==
  /\ (InlineDone /\ result.ok)
       => \A k \in 1..Len(result.val) :
            result.val[k].type \in {"strong", "emphasis", "delete"}
              => \A t \in {"image", "break", "html", "mdxJsxTextElement"} :
                   CountType(result.val[k].children, t) = 0
  /\ (InlineDone /\ Len(input) = 3 /\ BoldOnly(input[1])
        /\ IsOpaqueInline(input[2]) /\ BoldOnly(input[3]))
       => /\ result.ok
          /\ processInlineNodes(<<input[2]>>).ok
          /\ result.val = <<StrongAround(input[1]),
                            processInlineNodes(<<input[2]>>).val[1],
                            StrongAround(input[3])>>
          /\ result.val[2].type
               \in {"image", "break", "html", "mdxJsxTextElement", "link"}

C23_Witness ==
  /\ InlineDone /\ Len(input) = 3
  /\ BoldOnly(input[1]) /\ input[2].type = "img" /\ BoldOnly(input[3])
  /\ result.ok /\ Len(result.val) = 3
  /\ result.val[1].type = "strong" /\ result.val[2].type = "image"
  /\ result.val[3].type = "strong"

(***************************************************************************)
(* Properties of the recursion of processInlineNodes.                       *)
(***************************************************************************)
RECURSIVE CountFlags(_)
\* number of mark flags set on the nodes of a list, descendants included
CountFlags(nodes) ==
  IF nodes = <<>> THEN 0
  ELSE Len(getNodeMarksPart001(Head(nodes)))
       + CountFlags(Head(nodes).children) + CountFlags(Tail(nodes))

RECURSIVE CountNodes(_)
\* number of nodes of a list, descendants included
CountNodes(nodes) ==
  IF nodes = <<>> THEN 0
  ELSE 1 + CountNodes(Head(nodes).children) + CountNodes(Tail(nodes))

\* C24 as stated: each recursive call is made on a list with fewer siblings
\* or fewer set mark flags than the list of the call that makes it.
C24_FewerSiblingsOrFlags ==
  pc = "call"
  => \A c \in RecursiveCalls(op, input) :
       Len(c) < Len(input) \/ CountFlags(c) < CountFlags(input)

\* C24 amended: every call of processInlineNodes returns or raises, and each
\* recursive call is made on a list with fewer nodes, descendants included,
\* or with as many nodes and fewer set mark flags.
C24_TerminatesOnSmallerLists ==
  /\ [](pc = "call"
          => \A c \in RecursiveCalls(op, input) :
               \/ CountNodes(c) < CountNodes(input)
               \/ /\ CountNodes(c) = CountNodes(input)
                  /\ CountFlags(c) < CountFlags(input))
  /\ (pc = "call") ~> (pc = "done")

C24_Witness ==
  /\ pc = "call" /\ op = "processInlineNodes"
  /\ input = RunItem("longLink", 1).children

(***************************************************************************)
(* Properties of the two implementations of processInlineNodes.             *)
(***************************************************************************)
BothDone == pc = "done" /\ op \in Implementations

\* C29: the processInlineNodes of markdownMarksHandler.ts and that of part_001
\* raise the same error or return equal forests on every sibling list.
C29_ImplementationsAgree ==
  /\ (BothDone /\ op = "processInlineNodes")
       => result = processInlineNodesPart001(input)
  /\ (BothDone /\ op = "part_001.processInlineNodes")
       => result = processInlineNodes(input)

(***************************************************************************)
(* Properties of list items.                                                *)
(***************************************************************************)
BlockContentKinds == {"blockquote", "p", "ol", "ul"}

\* the kind of node convertBlockContentElement returns for a kind of block
BlockContentType(type) ==
  CASE type = "blockquote" -> "blockquote"
    [] type = "p" -> "paragraph"
    [] type \in {"ol", "ul"} -> "list"

\* the children of a list item whose kind the list item cannot hold
Unsupported(item) ==
  {k \in 1..Len(item.children) :
     item.children[k].type \notin BlockContentKinds \cup {"lic"}}

\* C25: for a list of one item, a child of an unmapped kind makes
\* convertBlockElement raise the block-content error naming the kind of the
\* first such child; otherwise the list item holds, child by child, a
\* paragraph of the inline children of a lic child, and the block-content
\* conversion of a blockquote, p, ol or ul child.
C25_ListItemChildren ==
  (BlockDone /\ input.type \in {"ol", "ul"} /\ Len(input.children) = 1)
  => LET item == input.children[1] IN
     IF Unsupported(item) # {}
     THEN result
            = Throw(ErrBlockContentElement,
                    item.children[CHOOSE k \in Unsupported(item) :
                                    \A j \in Unsupported(item) : k <= j].type)
     ELSE /\ result.ok
          /\ result.val.type = "list"
          /\ Len(result.val.children) = 1
          /\ result.val.children[1].type = "listItem"
          /\ Len(result.val.children[1].children) = Len(item.children)
          /\ \A k \in 1..Len(item.children) :
               IF item.children[k].type = "lic"
               THEN result.val.children[1].children[k]
                      = MdParent("paragraph",
                          processInlineNodes(item.children[k].children).val)
               ELSE /\ result.val.children[1].children[k].type
                         = BlockContentType(item.children[k].type)
                    /\ result.val.children[1].children[k]
                         = convertBlockContentElement(item.children[k],
                                                      field).val

C25_Witness ==
  /\ BlockDone /\ input.type = "ul" /\ Len(input.children) = 1
  /\ Len(input.children[1].children) = 2
  /\ input.children[1].children[1].type = "lic"
  /\ input.children[1].children[2].type = "hr"
  /\ result = Throw(ErrBlockContentElement, "hr")

(***************************************************************************)
(* C26: when a custom block component is emitted as a directive (leaf or    *)
(* container), the directive's attributes are exactly the serialized        *)
(* attributes whose value is a string: one entry name -> value for each of  *)
(* them, and none for an attribute whose value is not a string.             *)
(***************************************************************************)
StringValued(attributes) ==
  SelectSeq(attributes, LAMBDA att : att.valueType = "string")

C26_DirectiveKeepsStringAttributes ==
  (/\ pc = "done"
   /\ op = "convertBlockElement"
   /\ input.type = "mdxJsxFlowElement"
   /\ result.ok
   /\ result.val.type \in {"leafDirective", "containerDirective"})
  => result.val.attributes = StringValued(input.props.attributes)

(***************************************************************************)
(* C27: in the text handler of convertToSitepinsMarkdown, skipEscaping      *)
(* "all" emits every text node as its raw value, and skipEscaping "html"    *)
(* takes the "<" entries, and only those, out of the unsafe list the        *)
(* handler otherwise leaves; both whatever parser.type is.                  *)
(***************************************************************************)
C27_SkipEscapingForEveryParserType ==
  [][(pc = "ready" /\ op = "text")
     => /\ field.skipEscaping = "all" => result'.val = input.node.value
        /\ field.skipEscaping = "html"
             => input'.unsafe = WithoutLessThan(WithoutPhrasingSpaces(input.unsafe))]_vars

(***************************************************************************)
(* C28: when stringifyMDX, for a parser type other than 'markdown', returns *)
(* Markdown text, that text is the serialization of the whole converted     *)
(* tree followed by one rewrite pass per template declaring match, in the   *)
(* order of the templates list, each pass applied to the output of the one  *)
(* before; a template without match adds no pass.                           *)
(***************************************************************************)
MatchingTemplateNames ==
  LET declaring == SelectSeq(field.templates, LAMBDA t : t.match.defined)
  IN [k \in 1..Len(declaring) |-> declaring[k].name]

ReturnsMarkdown ==
  /\ StringifyDone /\ field.parser # "markdown"
  /\ result.ok /\ result.val.kind = "markdown"

C28_OneRewritePerMatchingTemplate ==
  ReturnsMarkdown
  => /\ result.val.tree = createMdastRoot(input.node, field).val
     /\ result.val.rewrites = MatchingTemplateNames

C28_Witness ==
  /\ ReturnsMarkdown
  /\ Len(field.templates) = 2
  /\ result.val.rewrites = <<"card", "note">>
  /\ Len(result.val.tree.children) = 2

(***************************************************************************)
(* C30: stringifyMDX hands back the raw value of an invalid_markdown node   *)
(* only when that node is the only child of the root; for a root of two or  *)
(* more children every child is converted or an error is raised, so that    *)
(* the returned text leaves out no child's content.                         *)
(***************************************************************************)
C30_RawValueOnlyForSoleChild ==
  (StringifyDone /\ input.js = "object" /\ result.ok)
  => /\ result.val.kind = "raw" => Len(input.node.children) = 1
     /\ Len(input.node.children) >= 2
          => /\ result.val.kind = "markdown"
             /\ PlateTexts(input.node) \subseteq MdTexts(result.val.tree)

====
